---- MODULE Spec2Model ----
(***************************************************************************)
(* The MERA explorer: resolution of CF standard names into GRIB1 codes,    *)
(* MERA GRIB file names and the reverse parsing (mera_explorer/gribs.py,   *)
(* mera_explorer/utils.py, mera_explorer/forecasts.py).                    *)
(*                                                                         *)
(* The state of the model is the last call made to the library (call: its  *)
(* name and arguments, and for a call that runs in steps its locals), what *)
(* it returned or raised (ret), and the dictionaries of the module gribs   *)
(* (tables) and the files of the local and of the remote host (hosts).     *)
(* Spec is the name codec, SpecInventory the inventories of files,         *)
(* SpecYaml the variable-set documents, SpecSession a sequence of calls in *)
(* one interpreter, SpecRun the extraction runs of forecasts.py and of     *)
(* scripts/create_mera_sample.py, SpecDurations the durations of utils.py, *)
(* SpecTransfer the transfers of transfer.py, SpecStates the atmosphere    *)
(* states, SpecRequest the list of the files of a request, SpecRead the    *)
(* reading of a field, SpecPaths the paths of the forecast files,          *)
(* SpecExtraction the extraction of a period and SpecForecast the writing  *)
(* of a forecast.  The sets of the section Inputs are the arguments the    *)
(* calls are made with.                                                    *)
(*                                                                         *)
(* A Python string is a sequence of atoms: an atom is                      *)
(* a separator character ("_", "/", ".", "-", "+"), a decimal digit, or a  *)
(* run of characters that the code never looks inside (a word such as      *)
(* "air" or "hPa", a stream label such as "FC3hr").  str.split, str.index, *)
(* str(), int() and str.zfill are computed on these sequences as Python    *)
(* computes them on characters.                                            *)
(***************************************************************************)
EXTENDS Integers, Sequences, FiniteSets, TLC

VARIABLES call, ret, tables, hosts

vars == <<call, ret, tables, hosts>>

(***************************************************************************)
(* Python values and outcomes                                              *)
(***************************************************************************)
StrV(s) == [t |-> "str", v |-> s]

IntV(n) == [t |-> "int", v |-> n]

TupleV(xs) == [t |-> "tuple", v |-> xs]

None == [t |-> "None", v |-> 0]

\* A call either returns a value or raises an exception.
Ok(x) == [ok |-> TRUE, v |-> x]

Raise(e) == [ok |-> FALSE, v |-> e]

KeyError == "KeyError"

UnpackError == "ValueError: wrong number of values to unpack"

IntError == "ValueError: invalid literal for int()"

IndexError == "ValueError: substring not found"

UnitError == "ValueError: Unknown vertical coordinate unit"

DeltaError == "ValueError: Could not infer the format of the date"

\* Python's ==: values of different types are never equal.
RECURSIVE PyEq(_, _)
PyEq(a, b) ==
    /\ a.t = b.t
    /\ IF a.t = "tuple"
       THEN /\ Len(a.v) = Len(b.v)
            /\ \A i \in 1..Len(a.v) : PyEq(a.v[i], b.v[i])
       ELSE a.v = b.v

(***************************************************************************)
(* Strings                                                                 *)
(***************************************************************************)
US == <<"_">>

AT == <<"_", "at", "_">>

SLASH == <<"/">>

Digits == <<"0", "1", "2", "3", "4", "5", "6", "7", "8", "9">>

\* The literal "w1_w2_..._wn".
RECURSIVE N(_)
N(ws) ==
    IF Len(ws) = 0 THEN <<>>
    ELSE IF Len(ws) = 1 THEN <<ws[1]>>
    ELSE <<ws[1]>> \o US \o N(Tail(ws))

\* sep.join(parts)
RECURSIVE join(_, _)
join(sep, parts) ==
    IF Len(parts) = 0 THEN <<>>
    ELSE IF Len(parts) = 1 THEN parts[1]
    ELSE parts[1] \o sep \o join(sep, Tail(parts))

\* 1-based position of the first occurrence of pat in s, 0 when there is none.
find(s, pat) ==
    LET hits == {i \in 1..(Len(s) - Len(pat) + 1) : SubSeq(s, i, i + Len(pat) - 1) = pat}
    IN  IF hits = {} THEN 0 ELSE CHOOSE i \in hits : \A j \in hits : i <= j

\* s.split(sep)
RECURSIVE split(_, _)
split(s, sep) ==
    LET i == find(s, sep)
    IN  IF i = 0 THEN <<s>>
        ELSE <<SubSeq(s, 1, i - 1)>> \o split(SubSeq(s, i + Len(sep), Len(s)), sep)

startswith(s, pre) == Len(pre) <= Len(s) /\ SubSeq(s, 1, Len(pre)) = pre

endswith(s, suf) == Len(suf) <= Len(s) /\ SubSeq(s, Len(s) - Len(suf) + 1, Len(s)) = suf

\* str(n) for an integer n
RECURSIVE NatStr(_)
NatStr(n) ==
    IF n < 10 THEN <<Digits[n + 1]>>
    ELSE NatStr(n \div 10) \o <<Digits[(n % 10) + 1]>>

IntStr(n) == IF n < 0 THEN <<"-">> \o NatStr(-n) ELSE NatStr(n)

\* str(x)
str(x) == IF x.t = "str" THEN x.v ELSE IntStr(x.v)

IsDigit(a) == \E i \in 1..10 : Digits[i] = a

DigitVal(a) == CHOOSE d \in 0..9 : Digits[d + 1] = a

RECURSIVE DigitsVal(_)
DigitsVal(s) ==
    IF Len(s) = 0 THEN 0
    ELSE 10 * DigitsVal(SubSeq(s, 1, Len(s) - 1)) + DigitVal(s[Len(s)])

\* int(s) for a string s: an optional sign and at least one digit
int(s) ==
    LET signed == Len(s) > 0 /\ s[1] \in {"-", "+"}
        body == IF signed THEN Tail(s) ELSE s
    IN  IF Len(body) > 0 /\ \A i \in 1..Len(body) : IsDigit(body[i])
        THEN Ok(IF signed /\ s[1] = "-" THEN -DigitsVal(body) ELSE DigitsVal(body))
        ELSE Raise(IntError)

\* s.zfill(width): the zeros go after the sign, if there is one
RECURSIVE zfill(_, _)
zfill(s, width) ==
    IF Len(s) >= width THEN s
    ELSE IF Len(s) > 0 /\ s[1] \in {"-", "+"} THEN zfill(<<s[1], "0">> \o Tail(s), width)
    ELSE zfill(<<"0">> \o s, width)

\* utils.lineparser(line, startword, stopword)
lineparser(line, startword, stopword) ==
    LET matchidx == find(line, startword)
        startidx == matchidx + Len(startword)
        rest == SubSeq(line, startidx, Len(line))
    IN  IF matchidx = 0 THEN Raise(IndexError)
        ELSE IF stopword # None
        THEN IF find(rest, stopword.v) = 0 THEN Raise(IndexError)
             ELSE Ok(SubSeq(rest, 1, find(rest, stopword.v) - 1))
        ELSE Ok(rest)

(***************************************************************************)
(* Static tables                                                           *)
(***************************************************************************)
cfname_to_default_grib1id ==
       (N(<<"air", "pressure">>)                                                    :> <<1, 105, 0, 0>>)
    @@ (N(<<"geopotential">>)                                                       :> <<6, 105, 0, 0>>)
    @@ (N(<<"geopotential", "height">>)                                             :> <<7, 100, 850, 0>>)
    @@ (N(<<"air", "temperature">>)                                                 :> <<11, 105, 2, 0>>)
    @@ (N(<<"virtual", "temperature">>)                                             :> <<12, 105, 2, 0>>)
    @@ (N(<<"air", "potential", "temperature">>)                                    :> <<13, 105, 2, 0>>)
    @@ (N(<<"wet", "bulb", "potential", "temperature">>)                            :> <<14, 105, 2, 0>>)
    @@ (N(<<"maximum", "temperature">>)                                             :> <<15, 105, 2, 2>>)
    @@ (N(<<"minimum", "temperature">>)                                             :> <<16, 105, 2, 2>>)
    @@ (N(<<"dew", "point", "temperature">>)                                        :> <<17, 105, 0, 0>>)
    @@ (N(<<"visibility", "in", "air">>)                                            :> <<20, 105, 0, 0>>)
    @@ (N(<<"wind", "from", "direction">>)                                          :> <<31, 105, 10, 0>>)
    @@ (N(<<"wind", "speed">>)                                                      :> <<32, 105, 10, 0>>)
    @@ (N(<<"eastward", "wind">>)                                                   :> <<33, 105, 10, 0>>)
    @@ (N(<<"northward", "wind">>)                                                  :> <<34, 105, 10, 0>>)
    @@ (N(<<"upward", "air", "velocity">>)                                          :> <<40, 100, 850, 0>>)
    @@ (N(<<"atmosphere", "absolute", "vorticity">>)                                :> <<41, 100, 850, 0>>)
    @@ (N(<<"atmosphere", "relative", "vorticity">>)                                :> <<43, 100, 850, 0>>)
    @@ (N(<<"divergence", "of", "wind">>)                                           :> <<44, 100, 850, 0>>)
    @@ (N(<<"specific", "humidity">>)                                               :> <<51, 105, 2, 0>>)
    @@ (N(<<"relative", "humidity">>)                                               :> <<52, 105, 2, 0>>)
    @@ (N(<<"atmosphere", "mass", "content", "of", "water", "vapor">>)              :> <<54, 200, 0, 0>>)
    @@ (N(<<"atmosphere", "cloud", "ice", "content">>)                              :> <<54, 200, 0, 0>>)
    @@ (N(<<"precipitation", "amount">>)                                            :> <<61, 105, 0, 4>>)
    @@ (N(<<"surface", "snow", "amount">>)                                          :> <<65, 105, 0, 4>>)
    @@ (N(<<"ocean", "mixed", "layer", "thickness">>)                               :> <<67, 105, 0, 0>>)
    @@ (N(<<"cloud", "area", "fraction">>)                                          :> <<71, 105, 0, 0>>)
    @@ (N(<<"low", "type", "cloud", "area", "fraction">>)                           :> <<73, 105, 0, 0>>)
    @@ (N(<<"medium", "type", "cloud", "area", "fraction">>)                        :> <<74, 105, 0, 0>>)
    @@ (N(<<"high", "type", "cloud", "area", "fraction">>)                          :> <<74, 105, 0, 0>>)
    @@ (N(<<"atmosphere", "mass", "content", "of", "cloud", "condensed", "water">>) :> <<76, 200, 0, 0>>)
    @@ (N(<<"land", "binary", "mask">>)                                             :> <<81, 105, 0, 0>>)
    @@ (N(<<"surface", "roughness", "length">>)                                     :> <<83, 105, 0, 0>>)
    @@ (N(<<"surface", "albedo">>)                                                  :> <<84, 105, 0, 0>>)
    @@ (N(<<"vegetation", "area", "fraction">>)                                     :> <<87, 105, 0, 0>>)
    @@ (N(<<"surface", "net", "upward", "shortwave", "flux">>)                      :> <<111, 105, 0, 4>>)
    @@ (N(<<"surface", "net", "upward", "longwave", "flux">>)                       :> <<112, 105, 0, 4>>)
    @@ (N(<<"toa", "net", "upward", "shortwave", "flux">>)                          :> <<113, 8, 0, 4>>)
    @@ (N(<<"toa", "incoming", "shortwave", "flux">>)                               :> <<113, 8, 0, 4>>)
    @@ (N(<<"toa", "outgoing", "longwave", "flux">>)                                :> <<114, 8, 0, 4>>)
    @@ (N(<<"net", "upward", "longwave", "flux", "in", "air">>)                     :> <<115, 105, 0, 4>>)
    @@ (N(<<"net", "upward", "shortwave", "flux", "in", "air">>)                    :> <<116, 105, 0, 4>>)
    @@ (N(<<"surface", "downwelling", "shortwave", "flux", "in", "air">>)           :> <<117, 105, 0, 4>>)
    @@ (N(<<"surface", "upward", "sensible", "heat", "flux">>)                      :> <<122, 105, 0, 4>>)
    @@ (N(<<"x", "wind", "gust">>)                                                  :> <<162, 105, 10, 2>>)
    @@ (N(<<"y", "wind", "gust">>)                                                  :> <<163, 105, 10, 2>>)

unit_to_itl ==
       (<<"hPa">>    :> 100)
    @@ (<<"metres">> :> 105)
    @@ (<<"kelvin">> :> 20)

(***************************************************************************)
(* Name codec                                                              *)
(***************************************************************************)
\* gribs.add_vlevel_to_fieldnames(lfn, lvlvl, vlvl_unit): lfn is a list of
\* strings, lvlvl a list of values, the result a list of strings, field-major.
RECURSIVE add_vlevel_to_fieldnames(_, _, _)
add_vlevel_to_fieldnames(lfn, lvlvl, vlvl_unit) ==
    IF Len(lfn) = 0 THEN <<>>
    ELSE [i \in 1..Len(lvlvl) |->
             lfn[1] \o US \o join(US, << <<"at">>, str(lvlvl[i]), vlvl_unit >>)]
         \o add_vlevel_to_fieldnames(Tail(lfn), lvlvl, vlvl_unit)

\* The level suffix of a name: vlvl, unit = lineparser(cfname, "_at_").split("_")
level_suffix(cfname) ==
    LET tail == lineparser(cfname, AT, None)
    IN  IF ~tail.ok THEN tail
        ELSE IF Len(split(tail.v, US)) # 2 THEN Raise(UnpackError)
        ELSE Ok(split(tail.v, US))

\* resolve_level with a bare name given the surface level instead of the
\* table's level.
resolve_level_bare_is_surface(cfname, itl, lev) ==
    IF find(cfname, AT) = 0 THEN Ok(<<105, 0>>)
    ELSE
    LET suffix == level_suffix(cfname)
        vlvl == suffix.v[1]
        unit == suffix.v[2]
    IN  IF ~suffix.ok THEN suffix
        ELSE IF unit \in DOMAIN unit_to_itl
        THEN IF int(vlvl).ok THEN Ok(<<unit_to_itl[unit], int(vlvl).v>>)
             ELSE int(vlvl)
        ELSE IF unit = <<"level">>
        THEN Ok(<<IF vlvl = <<"sea">> THEN 103 ELSE 105, 0>>)
        ELSE Raise(UnitError)

\* resolve_level with the level value of the suffix dropped.
resolve_level_keeps_lev(cfname, itl, lev) ==
    IF find(cfname, AT) = 0 THEN Ok(<<itl, lev>>)
    ELSE
    LET suffix == level_suffix(cfname)
        vlvl == suffix.v[1]
        unit == suffix.v[2]
    IN  IF ~suffix.ok THEN suffix
        ELSE IF unit \in DOMAIN unit_to_itl
        THEN IF int(vlvl).ok THEN Ok(<<unit_to_itl[unit], lev>>)
             ELSE int(vlvl)
        ELSE IF unit = <<"level">>
        THEN Ok(<<IF vlvl = <<"sea">> THEN 103 ELSE 105, 0>>)
        ELSE Raise(UnitError)

\* resolve_level with the sea level taken for the surface level.
resolve_level_sea_is_surface(cfname, itl, lev) ==
    IF find(cfname, AT) = 0 THEN Ok(<<itl, lev>>)
    ELSE
    LET suffix == level_suffix(cfname)
        vlvl == suffix.v[1]
        unit == suffix.v[2]
    IN  IF ~suffix.ok THEN suffix
        ELSE IF unit \in DOMAIN unit_to_itl
        THEN IF int(vlvl).ok THEN Ok(<<unit_to_itl[unit], int(vlvl).v>>)
             ELSE int(vlvl)
        ELSE IF unit = <<"level">>
        THEN Ok(<<105, 0>>)
        ELSE Raise(UnitError)

\* resolve_level with an unknown unit leaving the table's level in place.
resolve_level_ignores_unit(cfname, itl, lev) ==
    IF find(cfname, AT) = 0 THEN Ok(<<itl, lev>>)
    ELSE
    LET suffix == level_suffix(cfname)
        vlvl == suffix.v[1]
        unit == suffix.v[2]
    IN  IF ~suffix.ok THEN suffix
        ELSE IF unit \in DOMAIN unit_to_itl
        THEN IF int(vlvl).ok THEN Ok(<<unit_to_itl[unit], int(vlvl).v>>)
             ELSE int(vlvl)
        ELSE IF unit = <<"level">>
        THEN Ok(<<IF vlvl = <<"sea">> THEN 103 ELSE 105, 0>>)
        ELSE Ok(<<itl, lev>>)

\* The override of the level type and level value by the suffix of the name
\* (the if "_at_" in cfname block): <<itl, lev>> or the exception raised.
resolve_level(cfname, itl, lev) ==
    IF find(cfname, AT) = 0 THEN Ok(<<itl, lev>>)
    ELSE
    LET suffix == level_suffix(cfname)
        vlvl == suffix.v[1]
        unit == suffix.v[2]
    IN  IF ~suffix.ok THEN suffix
        ELSE IF unit \in DOMAIN unit_to_itl
        THEN IF int(vlvl).ok THEN Ok(<<unit_to_itl[unit], int(vlvl).v>>)
             ELSE int(vlvl)
        ELSE IF unit = <<"level">>
        THEN Ok(<<IF vlvl = <<"sea">> THEN 103 ELSE 105, 0>>)
        ELSE Raise(UnitError)

\* get_grib1id_from_cfname with a default code for a name the table lacks.
get_grib1id_from_cfname_with_default(cfname) ==
    LET base_quantity == split(cfname, AT)[1]
        default == IF base_quantity \in DOMAIN cfname_to_default_grib1id
                   THEN cfname_to_default_grib1id[base_quantity]
                   ELSE <<0, 105, 0, 0>>
        level == resolve_level(cfname, default[2], default[3])
    IN  IF ~level.ok THEN level
        ELSE Ok(TupleV(<<IntV(default[1]), IntV(level.v[1]),
                         IntV(level.v[2]), IntV(default[4])>>))

\* gribs.get_grib1id_from_cfname(cfname): the tuple (IOP, ITL, LEV, TRI) of ints
get_grib1id_from_cfname(cfname) ==
    LET base_quantity == split(cfname, AT)[1]
    IN  IF base_quantity \notin DOMAIN cfname_to_default_grib1id THEN Raise(KeyError)
        ELSE
        LET default == cfname_to_default_grib1id[base_quantity]
            level == resolve_level(cfname, default[2], default[3])
        IN  IF ~level.ok THEN level
            ELSE Ok(TupleV(<<IntV(default[1]), IntV(level.v[1]),
                             IntV(level.v[2]), IntV(default[4])>>))

\* os.path.basename(p)
basename(p) ==
    LET cuts == {i \in 1..Len(p) : p[i] = "/"}
    IN  IF cuts = {} THEN p
        ELSE SubSeq(p, (CHOOSE i \in cuts : \A j \in cuts : j <= i) + 1, Len(p))

\* os.path.join(*parts)
RECURSIVE os_path_join(_)
os_path_join(parts) ==
    IF Len(parts) = 1 THEN parts[1]
    ELSE LET a == os_path_join(SubSeq(parts, 1, Len(parts) - 1))
             b == parts[Len(parts)]
         IN  IF startswith(b, SLASH) THEN b
             ELSE IF Len(a) = 0 \/ endswith(a, SLASH) THEN a \o b
             ELSE a \o SLASH \o b

(***************************************************************************)
(* Dates and durations                                                     *)
(***************************************************************************)
datetime(y, m, d, h) ==
    [year |-> y, month |-> m, day |-> d, hour |-> h, minute |-> 0, second |-> 0]

IsLeap(y) == (y % 4 = 0 /\ y % 100 # 0) \/ y % 400 = 0

DaysInMonth(y, m) ==
    IF m = 2 THEN (IF IsLeap(y) THEN 29 ELSE 28)
    ELSE IF m \in {4, 6, 9, 11} THEN 30 ELSE 31

PrevDay(t) ==
    IF t.day > 1 THEN [t EXCEPT !.day = t.day - 1]
    ELSE IF t.month > 1
    THEN [t EXCEPT !.month = t.month - 1, !.day = DaysInMonth(t.year, t.month - 1)]
    ELSE [t EXCEPT !.year = t.year - 1, !.month = 12, !.day = 31]

NextDay(t) ==
    IF t.day < DaysInMonth(t.year, t.month) THEN [t EXCEPT !.day = t.day + 1]
    ELSE IF t.month < 12 THEN [t EXCEPT !.month = t.month + 1, !.day = 1]
    ELSE [t EXCEPT !.year = t.year + 1, !.month = 1, !.day = 1]

\* The date of day t with the time of day s seconds after its midnight, s any integer.
RECURSIVE AtSecond(_, _)
AtSecond(t, s) ==
    IF s < 0 THEN AtSecond(PrevDay(t), s + 86400)
    ELSE IF s >= 86400 THEN AtSecond(NextDay(t), s - 86400)
    ELSE [t EXCEPT !.hour = s \div 3600, !.minute = (s % 3600) \div 60, !.second = s % 60]

\* datetime - timedelta, the timedelta in seconds
datetime_sub(t, delta) ==
    AtSecond(t, t.hour * 3600 + t.minute * 60 + t.second - delta)

lower(a) ==
    IF a = "D" THEN "d" ELSE IF a = "H" THEN "h"
    ELSE IF a = "M" THEN "m" ELSE IF a = "S" THEN "s" ELSE a

\* utils.str_to_timedelta(strdelta) for a string: the duration in seconds
str_to_timedelta(strdelta) ==
    IF Len(strdelta) = 0 THEN Raise("IndexError")
    ELSE
    LET unit == lower(strdelta[Len(strdelta)])
        n == int(SubSeq(strdelta, 1, Len(strdelta) - 1))
    IN  IF unit = "d" THEN (IF n.ok THEN Ok(n.v * 86400) ELSE n)
        ELSE IF unit = "h" THEN (IF n.ok THEN Ok(n.v * 3600) ELSE n)
        ELSE IF unit = "m" THEN (IF n.ok THEN Ok(n.v * 60) ELSE n)
        ELSE IF unit = "h" THEN (IF n.ok THEN Ok(n.v) ELSE n)
        ELSE Raise(DeltaError)

(***************************************************************************)
(* File names                                                              *)
(***************************************************************************)
ANALYSIS == <<"ANALYSIS">>

FC3hr == <<"FC3hr">>

FC33hr == <<"FC33hr">>

\* iop, itl, lev, tri = get_grib1id_from_cfname(varname) if varname is a
\* string, else the unpacking of the tuple varname
grib1id_of(varname) ==
    IF varname.t = "str" THEN get_grib1id_from_cfname(varname.v)
    ELSE IF Len(varname.v) = 4 THEN Ok(varname)
    ELSE Raise(UnpackError)

\* format_mera_gribname with the month not padded.
format_mera_gribname_month_unpadded(id, basetime, stream, pathfromroot) ==
    IF ~id.ok THEN id
    ELSE
    LET gribname == join(US, << <<"MERA">>, <<"PRODYEAR">>, str(IntV(basetime.year)),
                                str(IntV(basetime.month)),
                                str(id.v.v[1]), str(id.v.v[2]), str(id.v.v[3]),
                                str(id.v.v[4]), stream >>)
    IN  IF pathfromroot
        THEN Ok(StrV(os_path_join(<< <<"mera">>, str(id.v.v[1]), str(id.v.v[2]),
                                     str(id.v.v[3]), str(id.v.v[4]), gribname >>)))
        ELSE Ok(StrV(gribname))

\* The body of get_mera_gribname once iop, itl, lev, tri are unpacked: id is
\* the outcome of the unpacking, an exception raised there propagates.
format_mera_gribname(id, basetime, stream, pathfromroot) ==
    IF ~id.ok THEN id
    ELSE
    LET gribname == join(US, << <<"MERA">>, <<"PRODYEAR">>, str(IntV(basetime.year)),
                                zfill(str(IntV(basetime.month)), 2),
                                str(id.v.v[1]), str(id.v.v[2]), str(id.v.v[3]),
                                str(id.v.v[4]), stream >>)
    IN  IF pathfromroot
        THEN Ok(StrV(os_path_join(<< <<"mera">>, str(id.v.v[1]), str(id.v.v[2]),
                                     str(id.v.v[3]), str(id.v.v[4]), gribname >>)))
        ELSE Ok(StrV(gribname))

\* gribs.get_mera_gribname(varname, basetime, stream, pathfromroot)
get_mera_gribname(varname, basetime, stream, pathfromroot) ==
    format_mera_gribname(grib1id_of(varname), basetime, stream, pathfromroot)

\* basetime_and_stream with the validity time taken for the base time.
basetime_and_stream_no_offset(tri, valtime) ==
    IF PyEq(tri, IntV(4))
    THEN [basetime |-> valtime, stream |-> FC3hr]
    ELSE [basetime |-> valtime, stream |-> ANALYSIS]

\* basetime_and_stream with every non-instantaneous variable (indicator other
\* than 0) taken for a cumulated one.
basetime_and_stream_nonzero_tri(tri, valtime) ==
    IF ~PyEq(tri, IntV(0))
    THEN [basetime |-> datetime_sub(valtime, str_to_timedelta(<<"3", "h">>).v),
          stream |-> FC3hr]
    ELSE [basetime |-> valtime, stream |-> ANALYSIS]

\* basetime_and_stream with the 3 hours added instead of subtracted.
basetime_and_stream_adds_offset(tri, valtime) ==
    IF PyEq(tri, IntV(4))
    THEN [basetime |-> datetime_sub(valtime, -str_to_timedelta(<<"3", "h">>).v),
          stream |-> FC3hr]
    ELSE [basetime |-> valtime, stream |-> ANALYSIS]

\* The if tri == 4 block of get_mera_gribname_valtime: the base time and the
\* stream of the file holding the variable at valtime.
basetime_and_stream(tri, valtime) ==
    IF PyEq(tri, IntV(4))
    THEN [basetime |-> datetime_sub(valtime, str_to_timedelta(<<"3", "h">>).v),
          stream |-> FC3hr]
    ELSE [basetime |-> valtime, stream |-> ANALYSIS]

\* The return statement of get_mera_gribname_valtime: the call of
\* get_mera_gribname with the base time and the stream chosen above.
gribname_at(varname, bs, pathfromroot) ==
    get_mera_gribname(varname, bs.basetime, bs.stream, pathfromroot)

\* The body of get_mera_gribname_valtime once iop, itl, lev, tri are unpacked.
gribname_valtime_of(id, varname, valtime, pathfromroot) ==
    IF ~id.ok THEN id
    ELSE gribname_at(varname, basetime_and_stream(id.v.v[4], valtime), pathfromroot)

\* gribs.get_mera_gribname_valtime(varname, valtime, pathfromroot)
get_mera_gribname_valtime(varname, valtime, pathfromroot) ==
    gribname_valtime_of(grib1id_of(varname), varname, valtime, pathfromroot)

\* get_grib1id_from_gribname reading the fields by position, extra fields ignored.
get_grib1id_from_gribname_by_position(gribname) ==
    LET fields == split(basename(gribname), US)
    IN  IF Len(fields) < 9 THEN Raise(UnpackError)
        ELSE Ok(TupleV(<<StrV(fields[5]), StrV(fields[6]), StrV(fields[7]), StrV(fields[8])>>))

\* gribs.get_grib1id_from_gribname(gribname): the tuple of the four fields
get_grib1id_from_gribname(gribname) ==
    LET fields == split(basename(gribname), US)
    IN  IF Len(fields) # 9 THEN Raise(UnpackError)
        ELSE Ok(TupleV(<<StrV(fields[5]), StrV(fields[6]), StrV(fields[7]), StrV(fields[8])>>))

\* gribs.get_date_from_gribname(gribname): the first of the month
get_date_from_gribname(gribname) ==
    LET fields == split(basename(gribname), US)
        year == int(fields[3])
        month == int(fields[4])
    IN  IF Len(fields) # 9 THEN Raise(UnpackError)
        ELSE IF ~year.ok THEN year
        ELSE IF ~month.ok THEN month
        ELSE IF year.v \notin 1..9999 \/ month.v \notin 1..12
        THEN Raise("ValueError: date out of range")
        ELSE Ok(datetime(year.v, month.v, 1, 0))

\* path_of_grib1id with the directories of the level and of the time range
\* indicator swapped.
path_of_grib1id_lev_tri_swapped(id, gribname) ==
    IF ~id.ok THEN id
    ELSE Ok(StrV(os_path_join(<< <<"mera">>, str(id.v.v[1]), str(id.v.v[2]),
                                 str(id.v.v[4]), str(id.v.v[3]), gribname >>)))

\* The return statement of expand_pathfromroot: id is the outcome of
\* get_grib1id_from_gribname, gribname the base name.
path_of_grib1id(id, gribname) ==
    IF ~id.ok THEN id
    ELSE Ok(StrV(os_path_join(<< <<"mera">>, str(id.v.v[1]), str(id.v.v[2]),
                                 str(id.v.v[3]), str(id.v.v[4]), gribname >>)))

\* gribs.expand_pathfromroot(gribname)
expand_pathfromroot(gribname) ==
    path_of_grib1id(get_grib1id_from_gribname(basename(gribname)), basename(gribname))

\* The names that the loops of get_all_mera_gribnames append for one
\* variable.
gribnames_of(varname, valtimes, streams, pathfromroot) ==
    { get_mera_gribname(varname, valtimes[i], streams[j], pathfromroot).v.v :
        i \in 1..Len(valtimes), j \in 1..Len(streams) }

\* The names of one variable added to the outcome r of the variables after it.
with_gribnames(names, r) == IF ~r.ok THEN r ELSE Ok(names \cup r.v)

\* get_all_mera_gribnames(varnames, valtimes, streams, pathfromroot): the
\* names without repetition (np.unique), as a set; the exception of the first
\* variable that does not resolve.
RECURSIVE get_all_mera_gribnames(_, _, _, _)
get_all_mera_gribnames(varnames, valtimes, streams, pathfromroot) ==
    IF Len(varnames) = 0 \/ Len(valtimes) = 0 \/ Len(streams) = 0 THEN Ok({})
    ELSE IF ~grib1id_of(Head(varnames)).ok THEN grib1id_of(Head(varnames))
    ELSE with_gribnames(gribnames_of(Head(varnames), valtimes, streams, pathfromroot),
                        get_all_mera_gribnames(Tail(varnames), valtimes, streams, pathfromroot))

\* The time that get_data selects in a file for the validity time valtimes:
\* grib[varname].sel(time=valtimes - 3 h, step=3 h) in a file of 3-hour
\* forecasts, grib[varname].sel(time=valtimes) otherwise.
selection_at_valtime(gribname, valtimes) == [time |-> valtimes, step |-> 0]

selection(gribname, valtimes) ==
    IF endswith(gribname, FC3hr)
    THEN [time |-> datetime_sub(valtimes, str_to_timedelta(<<"3", "h">>).v),
          step |-> str_to_timedelta(<<"3", "h">>).v]
    ELSE [time |-> valtimes, step |-> 0]

\* get_data(gribname, valtimes) on a file that is there and holds the times
\* of its month: what is selected in it.
get_data(gribname, valtimes) == Ok(selection(gribname, valtimes))

(***************************************************************************)
(* The module's tables as the state of the program.  The resolvers below   *)
(* are the resolvers above reading the dictionaries of the module as they  *)
(* stand at the time of the call.                                          *)
(***************************************************************************)
\* resolve_level over the tables tbls
resolve_level_with(tbls, cfname, itl, lev) ==
    IF find(cfname, AT) = 0 THEN Ok(<<itl, lev>>)
    ELSE
    LET suffix == level_suffix(cfname)
        vlvl == suffix.v[1]
        unit == suffix.v[2]
    IN  IF ~suffix.ok THEN suffix
        ELSE IF unit \in DOMAIN tbls.unit_to_itl
        THEN IF int(vlvl).ok THEN Ok(<<tbls.unit_to_itl[unit], int(vlvl).v>>)
             ELSE int(vlvl)
        ELSE IF unit = <<"level">>
        THEN Ok(<<IF vlvl = <<"sea">> THEN 103 ELSE 105, 0>>)
        ELSE Raise(UnitError)

\* get_grib1id_from_cfname over the tables tbls
get_grib1id_from_cfname_with(tbls, cfname) ==
    LET base_quantity == split(cfname, AT)[1]
    IN  IF base_quantity \notin DOMAIN tbls.cfname_to_default_grib1id THEN Raise(KeyError)
        ELSE
        LET default == tbls.cfname_to_default_grib1id[base_quantity]
            level == resolve_level_with(tbls, cfname, default[2], default[3])
        IN  IF ~level.ok THEN level
            ELSE Ok(TupleV(<<IntV(default[1]), IntV(level.v[1]),
                             IntV(level.v[2]), IntV(default[4])>>))

\* grib1id_of over the tables tbls
grib1id_with(tbls, varname) ==
    IF varname.t = "str" THEN get_grib1id_from_cfname_with(tbls, varname.v)
    ELSE IF Len(varname.v) = 4 THEN Ok(varname)
    ELSE Raise(UnpackError)

\* get_mera_gribname over the tables tbls
get_mera_gribname_with(tbls, varname, basetime, stream, pathfromroot) ==
    format_mera_gribname(grib1id_with(tbls, varname), basetime, stream, pathfromroot)

\* The return statement of get_mera_gribname_valtime over the tables tbls.
gribname_at_with(tbls, varname, bs, pathfromroot) ==
    get_mera_gribname_with(tbls, varname, bs.basetime, bs.stream, pathfromroot)

\* The body of get_mera_gribname_valtime over the tables tbls.
gribname_valtime_of_with(tbls, id, varname, valtime, pathfromroot) ==
    IF ~id.ok THEN id
    ELSE gribname_at_with(tbls, varname, basetime_and_stream(id.v.v[4], valtime),
                          pathfromroot)

\* get_mera_gribname_valtime over the tables tbls
get_mera_gribname_valtime_with(tbls, varname, valtime, pathfromroot) ==
    gribname_valtime_of_with(tbls, grib1id_with(tbls, varname), varname, valtime,
                             pathfromroot)

\* The code resolved for a name kept in the table under its base quantity.
cached(tbls, cfname, id) ==
    IF ~id.ok THEN tbls
    ELSE [tbls EXCEPT !.cfname_to_default_grib1id =
             (split(cfname, AT)[1] :> <<id.v.v[1].v, id.v.v[2].v, id.v.v[3].v, id.v.v[4].v>>)
             @@ @]

\* tables_after_resolution with the code resolved for the name kept in the
\* table as the default of its base quantity.
tables_after_resolution_caching(tbls, cfname) ==
    cached(tbls, cfname, get_grib1id_from_cfname_with(tbls, cfname))

\* The tables after get_grib1id_from_cfname(cfname): the function assigns the
\* default code and its overrides to the locals iop, itl, lev, tri and never
\* to the dictionaries.
tables_after_resolution(tbls, cfname) == tbls

\* The tables after a resolver resolved varname.
tables_after(tbls, varname) ==
    IF varname.t = "str" THEN tables_after_resolution(tbls, varname.v) ELSE tbls

(***************************************************************************)
(* Inventories.  A file system is a directory tree (the names of its       *)
(* files, in the order of the walk), a manifest (the lines of the text     *)
(* file merafiles_<fsname>.txt, end of line included) or a name for which  *)
(* no manifest exists.                                                     *)
(***************************************************************************)
AssertionError == "AssertionError"

BZ2 == <<".", "bz2">>

Range(s) == { s[i] : i \in 1..Len(s) }

IsSpace(a) == a \in {" ", "\n", "\t"}

\* l.strip()
RECURSIVE strip(_)
strip(l) ==
    IF Len(l) = 0 THEN l
    ELSE IF IsSpace(l[1]) THEN strip(Tail(l))
    ELSE IF IsSpace(l[Len(l)]) THEN strip(SubSeq(l, 1, Len(l) - 1))
    ELSE l

\* sub in s, for strings
contains(s, sub) == find(s, sub) # 0

\* The criterion of subset_present_gribnames when exclude_bz2 is set.
keep_uncompressed == [lambda |-> "startswith MERA and not endswith .bz2"]

\* keep(it) in list_mera_gribnames: the criterion passed or, when it is not
\* callable, that the name starts with "MERA".
keeps(keep, it) ==
    IF keep = keep_uncompressed
    THEN startswith(it, <<"MERA">>) /\ ~endswith(it, BZ2)
    ELSE startswith(it, <<"MERA">>)

\* The names list_mera_gribnames goes through: the files of the tree, or the
\* stripped lines of the manifest.
entries_of(fs) ==
    IF fs.kind = "dir" THEN fs.entries
    ELSE [i \in 1..Len(fs.entries) |-> strip(fs.entries[i])]

\* select with every entry kept.
select_keeps_all(keep, names) == names

\* The entries keep holds of, in order.
RECURSIVE select(_, _)
select(keep, names) ==
    IF Len(names) = 0 THEN <<>>
    ELSE IF keeps(keep, names[1]) THEN <<names[1]>> \o select(keep, Tail(names))
    ELSE select(keep, Tail(names))

\* gribs.list_mera_gribnames(fsname, keep)
list_mera_gribnames(fs, keep) ==
    IF fs.kind = "missing" THEN Raise(AssertionError)
    ELSE Ok(select(keep, entries_of(fs)))

\* requested_names with the compressed names probed instead of the plain ones.
requested_names_only_bz2(gribnames, exclude_bz2) ==
    IF exclude_bz2 THEN [i \in 1..Len(gribnames) |-> basename(gribnames[i])]
    ELSE [i \in 1..Len(gribnames) |-> basename(gribnames[i]) \o BZ2]

\* The names subset_present_gribnames looks for: the base names and, unless
\* exclude_bz2, the base names with ".bz2" appended.
requested_names(gribnames, exclude_bz2) ==
    IF exclude_bz2 THEN [i \in 1..Len(gribnames) |-> basename(gribnames[i])]
    ELSE [i \in 1..Len(gribnames) |-> basename(gribnames[i])]
         \o [i \in 1..Len(gribnames) |-> basename(gribnames[i]) \o BZ2]

\* set(fsgribnames) & set(gribnames)
present_among(fsgribnames, gribnames) ==
    IF ~fsgribnames.ok THEN fsgribnames
    ELSE Ok(Range(fsgribnames.v) \cap Range(gribnames))

\* gribs.subset_present_gribnames(gribnames, fsname, exclude_bz2): the set of
\* the names returned, which come as a list in the order of a Python set.
subset_present_gribnames(gribnames, fs, exclude_bz2) ==
    present_among(list_mera_gribnames(fs, IF exclude_bz2 THEN keep_uncompressed ELSE None),
                  requested_names(gribnames, exclude_bz2))

\* list(S) for a Python set S: its elements in any order.
list_of_set(S) == { s \in [1..Cardinality(S) -> S] : Range(s) = S }

\* "_".join([str(d) for d in id]) for the outcome id of get_grib1id_from_cfname
code_string(id) ==
    IF ~id.ok THEN id
    ELSE Ok(join(US, << str(id.v.v[1]), str(id.v.v[2]), str(id.v.v[3]), str(id.v.v[4]) >>))

\* A list with one more element in front, the first exception raised winning.
prepend(first, rest) ==
    IF ~first.ok THEN first
    ELSE IF ~rest.ok THEN rest
    ELSE Ok(<<first.v>> \o rest.v)

\* The list iop_itl_lev_tri of subset_present_variables.
RECURSIVE iop_itl_lev_tri(_)
iop_itl_lev_tri(cfnames) ==
    IF Len(cfnames) = 0 THEN Ok(<<>>)
    ELSE prepend(code_string(get_grib1id_from_cfname(cfnames[1])),
                 iop_itl_lev_tri(Tail(cfnames)))

\* n_files_here > 0
n_files_here_positive(varcode, merafilenames) ==
    \E i \in 1..Len(merafilenames) : contains(merafilenames[i], varcode)

\* The loop of subset_present_variables over zip(iop_itl_lev_tri, cfnames).
RECURSIVE herevarnames(_, _, _)
herevarnames(varcodes, cfnames, merafilenames) ==
    IF Len(varcodes) = 0 \/ Len(cfnames) = 0 THEN <<>>
    ELSE (IF n_files_here_positive(varcodes[1], merafilenames)
          THEN <<cfnames[1]>> ELSE <<>>)
         \o herevarnames(Tail(varcodes), Tail(cfnames), merafilenames)

\* The body of subset_present_variables once the inventory is listed and the
\* codes are resolved, either of which may have raised.
herevarnames_of(merafilenames, varcodes, cfnames) ==
    IF ~merafilenames.ok THEN merafilenames
    ELSE IF ~varcodes.ok THEN varcodes
    ELSE Ok(herevarnames(varcodes.v, cfnames, merafilenames.v))

\* gribs.subset_present_variables(cfnames, fsname)
subset_present_variables(cfnames, fs) ==
    herevarnames_of(list_mera_gribnames(fs, None), iop_itl_lev_tri(cfnames), cfnames)

(***************************************************************************)
(* Variable-set documents.  A YAML document with a "variables" mapping is  *)
(* the sequence of its entries, in the order of the text: the key of each  *)
(* entry and its value, a mapping that may hold "levels" and "level_unit". *)
(* A Python dict is the same sequence with no key twice, in the order of   *)
(* insertion.                                                              *)
(***************************************************************************)
\* The value {} of an entry
EmptyMapping == [keys |-> {}, levels |-> <<>>, level_unit |-> <<>>]

\* The names of the documents in the order of Python's comparison of strings
\* ("_" sorts after the digits and before the letters, "1" before "2").
NameOrder ==
    << N(<<"air", "pressure">>),
       N(<<"air", "pressure", "at", "sea", "level">>),
       N(<<"air", "temperature">>),
       N(<<"air", "temperature", "at">>) \o US \o IntStr(10) \o US \o <<"metres">>,
       N(<<"air", "temperature", "at">>) \o US \o IntStr(2) \o US \o <<"metres">>,
       N(<<"air", "temperature", "at">>) \o US \o IntStr(850) \o US \o <<"hPa">>,
       N(<<"precipitation", "amount">>) >>

\* a < b for two strings
str_lt(a, b) ==
    \E i, j \in 1..Len(NameOrder) : NameOrder[i] = a /\ NameOrder[j] = b /\ i < j

\* d[key] = value for a dict d: the value of the key replaced where the key
\* is, or the item added at the end.
setitem(d, key, value) ==
    IF \E i \in 1..Len(d) : d[i].key = key
    THEN [i \in 1..Len(d) |-> IF d[i].key = key THEN [key |-> key, value |-> value] ELSE d[i]]
    ELSE Append(d, [key |-> key, value |-> value])

\* variables_dict keeping the base quantity of each name as the key.
RECURSIVE variables_dict_base_names(_)
variables_dict_base_names(cfnames) ==
    IF Len(cfnames) = 0 THEN <<>>
    ELSE setitem(variables_dict_base_names(SubSeq(cfnames, 1, Len(cfnames) - 1)),
                 split(cfnames[Len(cfnames)], AT)[1], EmptyMapping)

\* {v: {} for v in cfnames}
RECURSIVE variables_dict(_)
variables_dict(cfnames) ==
    IF Len(cfnames) = 0 THEN <<>>
    ELSE setitem(variables_dict(SubSeq(cfnames, 1, Len(cfnames) - 1)),
                 cfnames[Len(cfnames)], EmptyMapping)

\* An item put at its place in a list of items sorted by key.
RECURSIVE insert_sorted(_, _)
insert_sorted(item, items) ==
    IF Len(items) = 0 THEN <<item>>
    ELSE IF str_lt(item.key, items[1].key) THEN <<item>> \o items
    ELSE <<items[1]>> \o insert_sorted(item, Tail(items))

\* yaml.dump of a mapping: its entries written in the order of their keys.
RECURSIVE yaml_dump(_)
yaml_dump(d) ==
    IF Len(d) = 0 THEN <<>>
    ELSE insert_sorted(d[1], yaml_dump(Tail(d)))

\* yaml.safe_load of a mapping: the dict of its entries, a key written twice
\* keeping its first place and its last value.
RECURSIVE yaml_safe_load(_)
yaml_safe_load(doc) ==
    IF Len(doc) = 0 THEN <<>>
    ELSE setitem(yaml_safe_load(SubSeq(doc, 1, Len(doc) - 1)),
                 doc[Len(doc)].key, doc[Len(doc)].value)

\* gribs.write_variables_to_yaml(cfnames, yaml_file): the document written
write_variables_to_yaml(cfnames) == yaml_dump(variables_dict(cfnames))

\* qualified_names with the levels taken from the last to the first.
qualified_names_reversed(v, entry) ==
    [i \in 1..Len(entry.levels) |->
        v \o US \o <<"at">> \o US \o str(entry.levels[Len(entry.levels) + 1 - i])
          \o US \o entry.level_unit]

\* [f"{v}_at_{lvl}_{level_unit}" for lvl in levels]
qualified_names(v, entry) ==
    [i \in 1..Len(entry.levels) |->
        v \o US \o <<"at">> \o US \o str(entry.levels[i]) \o US \o entry.level_unit]

\* The body of the loop of read_variables_from_yaml for the entry item, the
\* list cfnames being the outcome of the entries before it.
expand_entry(cfnames, item) ==
    IF ~cfnames.ok THEN cfnames
    ELSE IF "levels" \in item.value.keys
    THEN IF "level_unit" \notin item.value.keys THEN Raise(AssertionError)
         ELSE Ok(cfnames.v \o qualified_names(item.key, item.value))
    ELSE Ok(Append(cfnames.v, item.key))

\* The loop of read_variables_from_yaml over the dict variables.
RECURSIVE expand_entries(_)
expand_entries(variables) ==
    IF Len(variables) = 0 THEN Ok(<<>>)
    ELSE expand_entry(expand_entries(SubSeq(variables, 1, Len(variables) - 1)),
                      variables[Len(variables)])

\* gribs.read_variables_from_yaml(yaml_file) for the document of the file
read_variables_from_yaml(doc) == expand_entries(yaml_safe_load(doc))

(***************************************************************************)
(* Files of a host.  A file system holds the paths that are directories    *)
(* and, for each regular file, its path and its content; the empty path is *)
(* the working directory.  An operation on a file system gives the file    *)
(* system after it and whether it raised.                                  *)
(***************************************************************************)
FileNotFoundError == "FileNotFoundError"

FileExistsError == "FileExistsError"

IsADirectoryError == "IsADirectoryError"

NotADirectoryError == "NotADirectoryError"

SameFileError == "SameFileError"

\* ftplib.error_perm, the refusal of an FTP server
error_perm == "error_perm"

NoFiles == [dirs |-> {}, files |-> {}]

NoHosts == [loc |-> NoFiles, rem |-> NoFiles]

FsOk(fs) == [ok |-> TRUE, v |-> None, fs |-> fs]

FsRaise(e, fs) == [ok |-> FALSE, v |-> e, fs |-> fs]

\* os.path.dirname(p)
dirname(p) ==
    IF \A i \in 1..Len(p) : p[i] # "/" THEN <<>>
    ELSE SubSeq(p, 1, Len(p) - Len(basename(p)) - 1)

\* os.path.isdir(p)
os_path_isdir(fs, p) == p = <<>> \/ p \in fs.dirs

\* os.path.isfile(p)
os_path_isfile(fs, p) == \E f \in fs.files : f[1] = p

\* os.path.exists(p)
os_path_exists(fs, p) == os_path_isdir(fs, p) \/ os_path_isfile(fs, p)

\* What open(p, "rb").read() returns for a regular file p.
content(fs, p) == (CHOOSE f \in fs.files : f[1] = p)[2]

\* The file system after data was written to the file p.
written(fs, p, data) ==
    [fs EXCEPT !.files = { f \in @ : f[1] # p } \cup { <<p, data>> }]

\* os.mkdir(p) inside os.makedirs(p, exist_ok=True): an existing directory
\* is accepted.
mkdir_exist_ok(fs, p) ==
    IF os_path_isdir(fs, p) THEN FsOk(fs)
    ELSE IF os_path_isfile(fs, p) THEN FsRaise(FileExistsError, fs)
    ELSE IF os_path_isfile(fs, dirname(p)) THEN FsRaise(NotADirectoryError, fs)
    ELSE IF ~os_path_isdir(fs, dirname(p)) THEN FsRaise(FileNotFoundError, fs)
    ELSE FsOk([fs EXCEPT !.dirs = @ \cup {p}])

then_mkdir(r, p) == IF ~r.ok THEN r ELSE mkdir_exist_ok(r.fs, p)

\* os.makedirs(p, exist_ok=True)
RECURSIVE makedirs(_, _)
makedirs(fs, p) ==
    then_mkdir(IF dirname(p) # <<>> /\ ~os_path_exists(fs, dirname(p))
               THEN makedirs(fs, dirname(p)) ELSE FsOk(fs), p)

\* open(p, "wb"): the file is created or emptied.
open_wb(fs, p) ==
    IF os_path_isdir(fs, p) THEN FsRaise(IsADirectoryError, fs)
    ELSE IF os_path_isfile(fs, dirname(p)) THEN FsRaise(NotADirectoryError, fs)
    ELSE IF ~os_path_isdir(fs, dirname(p)) THEN FsRaise(FileNotFoundError, fs)
    ELSE FsOk(written(fs, p, ""))

\* open(p, "rb")
open_rb(fs, p) ==
    IF os_path_isdir(fs, p) THEN FsRaise(IsADirectoryError, fs)
    ELSE IF ~os_path_isfile(fs, p) THEN FsRaise(FileNotFoundError, fs)
    ELSE FsOk(fs)

\* shutil.copyfile(src, dst)
copyfile(fs, src, dst) ==
    IF src = dst /\ os_path_exists(fs, src) THEN FsRaise(SameFileError, fs)
    ELSE IF ~open_rb(fs, src).ok THEN open_rb(fs, src)
    ELSE IF ~open_wb(fs, dst).ok THEN open_wb(fs, dst)
    ELSE FsOk(written(fs, dst, content(fs, src)))

\* shutil.copy2(src, trg): into the directory trg if trg is a directory
copy2(fs, src, trg) ==
    IF os_path_isdir(fs, trg) THEN copyfile(fs, src, os_path_join(<<trg, basename(src)>>))
    ELSE copyfile(fs, src, trg)

(***************************************************************************)
(* Transfers (mera_explorer/transfer.py).  A transfer object copies files  *)
(* between the local host and the remote host; for a LocalTransfer the     *)
(* remote host is the local host.  A method gives the files of both hosts  *)
(* after it and whether it raised.                                         *)
(***************************************************************************)
\* The error of an SFTP request (paramiko)
IOError == "IOError"

Done(h) == [ok |-> TRUE, v |-> None, hosts |-> h]

Failed(e, h) == [ok |-> FALSE, v |-> e, hosts |-> h]

\* The outcome, on both hosts, of an operation r on the local files.
on_loc(h, r) == [ok |-> r.ok, v |-> r.v, hosts |-> [h EXCEPT !.loc = r.fs]]

\* Transfer.get: os.makedirs(trg, exist_ok=True)
Transfer_get(h, src, trg) == on_loc(h, makedirs(h.loc, trg))

\* Transfer.put: assert os.path.isfile(src)
Transfer_put(h, src, trg) ==
    IF os_path_isfile(h.loc, src) THEN Done(h) ELSE Failed(AssertionError, h)

\* Transfer.mget, Transfer.mput: assert len(srcs) == len(trgs)
Transfer_mget(h, srcs, trgs) ==
    IF Len(srcs) = Len(trgs) THEN Done(h) ELSE Failed(AssertionError, h)

\* sftp.get(src, trg), and client.retrbinary(f"RETR {src}", f.write) with f
\* open(trg, "wb"): the local file is opened, then the remote one is read.
retrieve(h, src, trg, refusal) ==
    IF ~open_wb(h.loc, trg).ok THEN on_loc(h, open_wb(h.loc, trg))
    ELSE IF ~os_path_isfile(h.rem, src)
    THEN Failed(refusal, [h EXCEPT !.loc = written(@, trg, "")])
    ELSE Done([h EXCEPT !.loc = written(@, trg, content(h.rem, src))])

\* sftp.put(src, trg), and client.storbinary(f"STOR {trg}", f) with f
\* open(src, "rb"): the local file is opened, then the remote one is written.
store(h, src, trg, refusal) ==
    IF ~open_rb(h.loc, src).ok THEN on_loc(h, open_rb(h.loc, src))
    ELSE IF ~open_wb(h.rem, trg).ok THEN Failed(refusal, h)
    ELSE Done([h EXCEPT !.rem = written(@, trg, content(h.loc, src))])

\* The copy of one file from the remote host, by the class of the transfer.
fetch(cls, h, src, trg) ==
    IF cls = "LocalTransfer" THEN on_loc(h, copy2(h.loc, src, trg))
    ELSE IF cls = "SSHTransfer" THEN retrieve(h, src, trg, IOError)
    ELSE retrieve(h, src, trg, error_perm)

\* The copy of one file to the remote host, by the class of the transfer.
send(cls, h, src, trg) ==
    IF cls = "LocalTransfer" THEN on_loc(h, copy2(h.loc, src, trg))
    ELSE IF cls = "SSHTransfer" THEN store(h, src, trg, IOError)
    ELSE store(h, src, trg, error_perm)

then_fetch(cls, r, src, trg) == IF ~r.ok THEN r ELSE fetch(cls, r.hosts, src, trg)

then_send(cls, r, src, trg) == IF ~r.ok THEN r ELSE send(cls, r.hosts, src, trg)

\* for src, trg in zip(srcs, trgs): the copy from the remote host
RECURSIVE then_fetch_all(_, _, _, _)
then_fetch_all(cls, r, srcs, trgs) ==
    IF ~r.ok \/ Len(srcs) = 0 \/ Len(trgs) = 0 THEN r
    ELSE then_fetch_all(cls, fetch(cls, r.hosts, Head(srcs), Head(trgs)),
                        Tail(srcs), Tail(trgs))

\* for src, trg in zip(srcs, trgs): the copy to the remote host
RECURSIVE then_send_all(_, _, _, _)
then_send_all(cls, r, srcs, trgs) ==
    IF ~r.ok \/ Len(srcs) = 0 \/ Len(trgs) = 0 THEN r
    ELSE then_send_all(cls, send(cls, r.hosts, Head(srcs), Head(trgs)),
                       Tail(srcs), Tail(trgs))

\* get(src, trg) of the three classes
get(cls, h, src, trg) == then_fetch(cls, Transfer_get(h, src, trg), src, trg)

\* put(src, trg) of the three classes: LocalTransfer.put calls super().get
put(cls, h, src, trg) ==
    IF cls = "LocalTransfer" THEN then_fetch(cls, Transfer_get(h, src, trg), src, trg)
    ELSE then_send(cls, Transfer_put(h, src, trg), src, trg)

\* mget(srcs, trgs) of the three classes
mget(cls, h, srcs, trgs) == then_fetch_all(cls, Transfer_mget(h, srcs, trgs), srcs, trgs)

\* mput(srcs, trgs) of the three classes
mput(cls, h, srcs, trgs) == then_send_all(cls, Transfer_mget(h, srcs, trgs), srcs, trgs)

(***************************************************************************)
(* Atmosphere states (forecasts.py).  A state is a dictionary: the         *)
(* sequence of its items, in the order of insertion.  A matrix is the      *)
(* sequence of its rows, a tensor of shape (nt, n_grid, nv) a sequence of  *)
(* nt sequences of n_grid sequences of nv numbers.                         *)
(***************************************************************************)
ListIndexError == "IndexError: list index out of range"

ShapeError == "ValueError: could not broadcast input array"

dict_item(key, value) == [key |-> key, value |-> value]

\* list(state.keys())
keys(state) == [ i \in 1..Len(state) |-> state[i].key ]

\* m.shape for a matrix with at least one row
shape(m) == <<Len(m), Len(m[1])>>

\* m.ravel(): the rows one after the other
ravel_by_columns(m) ==
    [ k \in 1..(Len(m) * Len(m[1])) |-> m[((k - 1) % Len(m)) + 1][((k - 1) \div Len(m)) + 1] ]

ravel(m) ==
    [ k \in 1..(Len(m) * Len(m[1])) |->
        m[((k - 1) \div Len(m[1])) + 1][((k - 1) % Len(m[1])) + 1] ]

\* v.reshape(gridshape)
reshape(v, gridshape) ==
    [ i \in 1..gridshape[1] |-> [ j \in 1..gridshape[2] |-> v[(i - 1) * gridshape[2] + j] ] ]

\* The loops of concatenate_states over states that have the nv keys and the
\* grid of the first one: concat_states[i_t, :, i_v] = state[key].ravel()
filled(states, nt, n_grid, nv) ==
    [ i_t \in 1..nt |-> [ k \in 1..n_grid |-> [ i_v \in 1..nv |->
        ravel(states[i_t][i_v].value)[k] ] ] ]

\* A state fits the tensor: as many keys as the first state, matrices of
\* the size of the first matrix.
fits(states, nv, n_grid) ==
    \A i_t \in 1..Len(states) :
        /\ Len(states[i_t]) = nv
        /\ \A i_v \in 1..nv : Len(ravel(states[i_t][i_v].value)) = n_grid

tensor_of(states, nt, n_grid, nv) ==
    IF ~fits(states, nv, n_grid) THEN Raise(ShapeError)
    ELSE Ok([shape |-> <<nt, n_grid, nv>>, a |-> filled(states, nt, n_grid, nv)])

\* concatenate_states(states)
concatenate_states(states) ==
    IF Len(states) = 0 THEN Raise(ListIndexError)
    ELSE IF Len(states[1]) = 0 THEN Raise(ListIndexError)
    ELSE tensor_of(states, Len(states),
                   shape(states[1][1].value)[1] * shape(states[1][1].value)[2],
                   Len(states[1]))

\* {cfnames[iv]: state[it, :, iv].reshape(gridshape) for iv in range(nv)}
separated(state, cfnames, gridshape, it) ==
    [ iv \in 1..state.shape[3] |->
        dict_item(cfnames[iv],
             reshape([ k \in 1..state.shape[2] |-> state.a[it][k][iv] ], gridshape)) ]

\* separate_states(state, cfnames, gridshape)
separate_states(state, cfnames, gridshape) ==
    IF state.shape[3] # Len(cfnames) THEN Raise(AssertionError)
    ELSE IF state.shape[2] # gridshape[1] * gridshape[2] THEN Raise(AssertionError)
    ELSE Ok([ it \in 1..state.shape[1] |-> separated(state, cfnames, gridshape, it) ])

(***************************************************************************)
(* Paths of the forecast files (forecasts.py): the path is formatted from  *)
(* a base time, a lead time and an inference id, and the times are parsed  *)
(* back from the name of the file.  Durations are in seconds.              *)
(***************************************************************************)
PlusError == "ValueError: Unable to parse the time from the GRIB"

TimeError == "ValueError: time data does not match format '%Y%m%d%H'"

\* DEFAULT_ROOTDIR = os.path.join(os.environ["SCRATCH"], "neural-lam-outputs")
DEFAULT_ROOTDIR == <<"/", "scratch", "/", "neural-lam-outputs">>

\* datetime + timedelta
datetime_add(t, delta) == datetime_sub(t, -delta)

\* basetime.strftime("%Y%m%d%H")
strftime(t) ==
    zfill(IntStr(t.year), 4) \o zfill(IntStr(t.month), 2)
    \o zfill(IntStr(t.day), 2) \o zfill(IntStr(t.hour), 2)

\* strldt = str(int(leadtime.total_seconds() // 3600)).zfill(3)
strldt_unpadded(leadtime) == IntStr(leadtime \div 3600)

strldt_of(leadtime) == zfill(IntStr(leadtime \div 3600), 3)

\* get_path_from_times(basetime, leadtime, inferenceid)
get_path_from_times(basetime, leadtime, inferenceid) ==
    os_path_join(<< DEFAULT_ROOTDIR, inferenceid,
                    zfill(IntStr(basetime.year), 2), zfill(IntStr(basetime.month), 2),
                    zfill(IntStr(basetime.day), 2), zfill(IntStr(basetime.hour), 2),
                    <<"mbr000">>,
                    inferenceid \o strftime(basetime) \o <<"+">> \o strldt_of(leadtime)
                        \o <<".", "grib">> >>)

\* s[a:b] of Python for 0 <= a: the characters a+1 .. b, as far as there are
slice(s, a, b) == SubSeq(s, a + 1, IF b < Len(s) THEN b ELSE Len(s))

\* dt.datetime.strptime(s, "%Y%m%d%H") for a string of ten digits
strptime_digits(s) ==
    IF /\ DigitsVal(SubSeq(s, 5, 6)) \in 1..12
       /\ DigitsVal(SubSeq(s, 1, 4)) >= 1
       /\ DigitsVal(SubSeq(s, 7, 8)) \in
              1..DaysInMonth(DigitsVal(SubSeq(s, 1, 4)), DigitsVal(SubSeq(s, 5, 6)))
       /\ DigitsVal(SubSeq(s, 9, 10)) \in 0..23
    THEN Ok(datetime(DigitsVal(SubSeq(s, 1, 4)), DigitsVal(SubSeq(s, 5, 6)),
                     DigitsVal(SubSeq(s, 7, 8)), DigitsVal(SubSeq(s, 9, 10))))
    ELSE Raise(TimeError)

\* dt.datetime.strptime(s, "%Y%m%d%H") for the ten characters before the "+"
strptime(s) ==
    IF Len(s) = 10 /\ \A i \in 1..Len(s) : IsDigit(s[i]) THEN strptime_digits(s)
    ELSE Raise(TimeError)

\* (valtime, basetime, leadtime) of a base time and a number of hours parsed
times_of(basetime, hours) ==
    IF ~basetime.ok THEN basetime
    ELSE IF ~hours.ok THEN hours
    ELSE Ok(<<datetime_add(basetime.v, hours.v * 3600), basetime.v, hours.v * 3600>>)

\* The name parsed around its "+" sign, p the 0-based index of the sign.
times_around(gribname, p) ==
    IF p < 10 THEN Raise(TimeError)
    ELSE times_of(strptime(slice(gribname, p - 10, p)), int(slice(gribname, p + 1, p + 4)))

\* get_times_from_gribname(gribname)
get_times_from_gribname(gribname) ==
    IF find(basename(gribname), <<"+">>) = 0 THEN Raise(PlusError)
    ELSE times_around(basename(gribname), find(basename(gribname), <<"+">>) - 1)

(***************************************************************************)
(* Inputs                                                                  *)
(***************************************************************************)
MaxLevel == 12

\* Vertical levels: the small ones and those the package's variable lists use.
Levels == (0..MaxLevel) \cup {30, 60, 100, 500, 700, 850, 1000}

TableNames == DOMAIN cfname_to_default_grib1id

\* Names that are not keys of the table.
UnknownNames ==
    { N(<<"sea", "surface", "temperature">>), N(<<"air">>), N(<<"pressure">>), <<>> }

Units == { <<"hPa">>, <<"metres">>, <<"kelvin">> }

OtherUnits == { <<"level">>, <<"feet">>, <<"hpa">>, <<"Pa">>, <<>> }

LevelWords == { <<"sea">>, <<"surface">>, <<"ground">>, <<>> }

\* What may stand after "_at_": <level>_<unit>, a level word, or a suffix
\* that does not have two fields.
Suffixes ==
    { join(US, <<l, u>>) : l \in {IntStr(n) : n \in Levels} \cup LevelWords,
                           u \in Units \cup OtherUnits }
    \cup { IntStr(850), N(<<"mean", "sea", "level">>), N(<<"2", "metres", "above">>) }

CfNames ==
    (TableNames \cup UnknownNames)
    \cup { b \o AT \o x : b \in TableNames \cup UnknownNames, x \in Suffixes }

\* Lists of field names and of levels for add_vlevel_to_fieldnames: every
\* single name, and the lists of the package's variable sets.
FieldLists ==
    { <<n>> : n \in TableNames }
    \cup { << N(<<"relative", "humidity">>), N(<<"air", "temperature">>) >>,
           << N(<<"eastward", "wind">>), N(<<"northward", "wind">>) >>,
           << N(<<"geopotential">>), N(<<"eastward", "wind">>),
              N(<<"northward", "wind">>), N(<<"air", "temperature">>) >>,
           << >> }

LevelLists ==
    { <<IntV(l)>> : l \in Levels }
    \cup { <<IntV(2), IntV(60)>>, <<IntV(2), IntV(100)>>,
           <<IntV(1000), IntV(850), IntV(500)>>, << >> }

MinYear == 2016

MaxYear == 2017

Years == MinYear..MaxYear

\* Validity times: the first two days and the last day of every month, at
\* hours on both sides of the 3-hour offset.
ValTimes ==
    UNION { { datetime(y, m, d, h) : d \in {1, 2, DaysInMonth(y, m)}, h \in {0, 2, 3, 23} } :
            y \in Years, m \in 1..12 }

BaseTimes ==
    { datetime(y, m, 1, 0) : y \in Years, m \in 1..12 }
    \cup { datetime(y, 12, 31, 23) : y \in Years }

Streams == { ANALYSIS, FC3hr, FC33hr }

Code(iop, itl, lev, tri) == TupleV(<<IntV(iop), IntV(itl), IntV(lev), IntV(tri)>>)

\* Variables given as names (the table's, the package's, a failing one of
\* each kind) or as tuples, of ints or of the strings a parsed name gives.
VarNames ==
    { StrV(n) : n \in TableNames }
    \cup { StrV(n) : n \in {
             N(<<"air", "pressure", "at", "sea", "level">>),
             N(<<"air", "pressure", "at", "surface", "level">>),
             N(<<"air", "temperature", "at">>) \o US \o IntStr(2) \o US \o <<"metres">>,
             N(<<"air", "temperature", "at">>) \o US \o IntStr(850) \o US \o <<"hPa">>,
             N(<<"precipitation", "amount", "at">>) \o US \o IntStr(2) \o US \o <<"metres">>,
             N(<<"sea", "surface", "temperature">>),
             N(<<"air", "temperature", "at">>) \o US \o IntStr(2) \o US \o <<"feet">> } }
    \cup { Code(1, 103, 0, 0), Code(11, 105, 2, 0), Code(7, 100, 850, 0),
           Code(15, 105, 2, 2), Code(61, 105, 0, 4), Code(114, 8, 0, 4) }
    \cup { TupleV(<<StrV(IntStr(61)), StrV(IntStr(105)), StrV(IntStr(0)), StrV(IntStr(4))>>) }

MaxExtra == 2

\* File names handed to the parsers: well-formed names cut to their first k
\* fields or extended by extra fields, bare, under a directory, compressed.
WellFormed ==
    { << <<"MERA">>, <<"PRODYEAR">>, IntStr(2017), <<"0", "9">>, IntStr(11),
         IntStr(105), IntStr(2), IntStr(0), ANALYSIS >>,
      << <<"MERA">>, <<"PRODYEAR">>, IntStr(2016), IntStr(12), IntStr(1),
         IntStr(61), IntStr(0), IntStr(4), FC3hr >>,
      << <<"MERA">>, <<"PRODYEAR">>, <<"YYYY">>, <<"MM">>, <<"IOP">>,
         <<"ITL">>, <<"LEV">>, <<"TRI">>, <<"STREAM">> >> }

Extras(j) == [i \in 1..j |-> <<"idx">>]

GribNames ==
    { dir \o join(US, fields) \o ext :
        dir \in { <<>>, <<"mera", "/">> \o IntStr(11) \o SLASH \o IntStr(105) \o SLASH,
                  <<"grib", "_", "all", "/">> },
        fields \in { SubSeq(w, 1, k) : w \in WellFormed, k \in 0..9 }
                   \cup { w \o Extras(j) : w \in WellFormed, j \in 1..MaxExtra },
        ext \in { <<>>, <<".", "bz2">> } }

MaxEntries == 2

MaxRequested == 2

\* The sequences over S of length at most n.
SeqsUpTo(S, n) == UNION { [1..k -> S] : k \in 0..n }

FileOf(iop, itl, lev, tri) ==
    join(US, << <<"MERA">>, <<"PRODYEAR">>, IntStr(2017), <<"0", "9">>, IntStr(iop),
                IntStr(itl), IntStr(lev), IntStr(tri), ANALYSIS >>)

MetadataLine == <<"#!", "HOSTNAME=", "realin15">>

\* The names of an inventory: a file of air_temperature_at_2_metres, plain and
\* compressed, its index file, a file of cloud_area_fraction and, in a
\* manifest, a metadata line.
FileNames ==
    { FileOf(11, 105, 2, 0), FileOf(11, 105, 2, 0) \o BZ2,
      FileOf(11, 105, 2, 0) \o US \o <<"idx">>, FileOf(71, 105, 0, 0) }

ManifestLines ==
    { f \o <<"\n">> : f \in FileNames \cup {MetadataLine} }
    \cup { <<" ">> \o FileOf(71, 105, 0, 0) \o <<" ", "\n">> }

FileSystems ==
    { [kind |-> "missing", entries |-> <<>>] }
    \cup { [kind |-> "dir", entries |-> s] : s \in SeqsUpTo(FileNames, MaxEntries) }
    \cup { [kind |-> "manifest", entries |-> s] : s \in SeqsUpTo(ManifestLines, MaxEntries) }

\* The names asked for: bare or under their directory, compressed, absent
\* from every inventory, and a metadata line.
RequestedNames ==
    { <<"mera", "/">> \o IntStr(11) \o SLASH \o IntStr(105) \o SLASH \o IntStr(2)
          \o SLASH \o IntStr(0) \o SLASH \o FileOf(11, 105, 2, 0),
      FileOf(11, 105, 2, 0) \o BZ2,
      FileOf(71, 105, 0, 0),
      FileOf(1, 105, 0, 0),
      MetadataLine }

RequestedLists == SeqsUpTo(RequestedNames, MaxRequested)

\* The variables asked for: air_pressure (1, 105, 0, 0), air_temperature at
\* 2 metres (11, 105, 2, 0), cloud_area_fraction (71, 105, 0, 0), a name at a
\* level no file has and a name the table lacks.
RequestedVariables ==
    { N(<<"air", "pressure">>),
      N(<<"air", "temperature", "at">>) \o US \o IntStr(2) \o US \o <<"metres">>,
      N(<<"cloud", "area", "fraction">>),
      N(<<"air", "temperature", "at">>) \o US \o IntStr(10) \o US \o <<"metres">>,
      N(<<"sea", "surface", "temperature">>) }

VariableLists == SeqsUpTo(RequestedVariables, MaxRequested)

MaxNames == 3

MaxDocEntries == 2

\* The flat lists written to a document: names with and without a level
\* suffix, in any order, with duplicates.
NameLists == SeqsUpTo(Range(NameOrder), MaxNames)

\* The values of the entries of a document read: no annotation, levels with
\* their unit (numbers, a word, none), levels without unit, a unit alone.
Mappings ==
    { EmptyMapping,
      [keys |-> {"levels", "level_unit"}, levels |-> <<IntV(2), IntV(10)>>,
       level_unit |-> <<"metres">>],
      [keys |-> {"levels", "level_unit"}, levels |-> <<IntV(1000), IntV(850), IntV(500)>>,
       level_unit |-> <<"hPa">>],
      [keys |-> {"levels", "level_unit"}, levels |-> <<StrV(<<"sea">>)>>,
       level_unit |-> <<"level">>],
      [keys |-> {"levels", "level_unit"}, levels |-> <<>>, level_unit |-> <<"metres">>],
      [keys |-> {"levels"}, levels |-> <<IntV(2), IntV(10)>>, level_unit |-> <<>>],
      [keys |-> {"level_unit"}, levels |-> <<>>, level_unit |-> <<"metres">>] }

DocumentKeys ==
    { N(<<"air", "pressure">>), N(<<"air", "temperature">>),
      N(<<"precipitation", "amount">>) }

\* The documents read: every key once, as YAML has it.
Documents ==
    { d \in SeqsUpTo([key : DocumentKeys, value : Mappings], MaxDocEntries) :
        \A i, j \in 1..Len(d) : d[i].key = d[j].key => i = j }

MaxCalls == 3

\* The names resolved in a session: a bare name, the same quantity at another
\* level, names that fail (unit, quantity), a cumulated quantity.
SessionNames ==
    { N(<<"air", "temperature">>),
      N(<<"air", "temperature", "at">>) \o US \o IntStr(850) \o US \o <<"hPa">>,
      N(<<"air", "temperature", "at">>) \o US \o IntStr(2) \o US \o <<"feet">>,
      N(<<"sea", "surface", "temperature">>),
      N(<<"precipitation", "amount">>) }

SessionVarNames ==
    { StrV(N(<<"air", "temperature">>)),
      StrV(N(<<"air", "temperature", "at">>) \o US \o IntStr(850) \o US \o <<"hPa">>),
      StrV(N(<<"precipitation", "amount", "at">>) \o US \o IntStr(2) \o US \o <<"metres">>),
      Code(11, 105, 2, 0) }

SessionTimes == { datetime(2017, 1, 1, 0) }

(***************************************************************************)
(* The calls.  A run makes one call of the library on inputs of its choice *)
(* and may then hand the file name it got to the parsers of the library.   *)
(***************************************************************************)
Init ==
    /\ call = [op |-> "none"]
    /\ ret = Ok(None)
    /\ tables = [cfname_to_default_grib1id |-> cfname_to_default_grib1id,
                 unit_to_itl |-> unit_to_itl]
    /\ hosts = NoHosts

Idle == call.op = "none"

Call_get_grib1id_from_cfname ==
    /\ Idle
    /\ \E cfname \in CfNames :
        /\ call' = [op |-> "get_grib1id_from_cfname", cfname |-> cfname]
        /\ ret' = get_grib1id_from_cfname(cfname)
    /\ UNCHANGED <<tables, hosts>>

Call_add_vlevel_to_fieldnames ==
    /\ Idle
    /\ \E lfn \in FieldLists, lvlvl \in LevelLists, vlvl_unit \in Units \cup {<<"level">>} :
        /\ call' = [op |-> "add_vlevel_to_fieldnames", lfn |-> lfn, lvlvl |-> lvlvl,
                    vlvl_unit |-> vlvl_unit]
        /\ ret' = Ok(add_vlevel_to_fieldnames(lfn, lvlvl, vlvl_unit))
    /\ UNCHANGED <<tables, hosts>>

Call_get_mera_gribname ==
    /\ Idle
    /\ \E varname \in VarNames, basetime \in BaseTimes, stream \in Streams,
          pathfromroot \in BOOLEAN :
        /\ call' = [op |-> "get_mera_gribname", varname |-> varname,
                    basetime |-> basetime, stream |-> stream,
                    pathfromroot |-> pathfromroot]
        /\ ret' = get_mera_gribname(varname, basetime, stream, pathfromroot)
    /\ UNCHANGED <<tables, hosts>>

Call_get_mera_gribname_valtime ==
    /\ Idle
    /\ \E varname \in VarNames, valtime \in ValTimes, pathfromroot \in BOOLEAN :
        /\ call' = [op |-> "get_mera_gribname_valtime", varname |-> varname,
                    valtime |-> valtime, pathfromroot |-> pathfromroot]
        /\ ret' = get_mera_gribname_valtime(varname, valtime, pathfromroot)
    /\ UNCHANGED <<tables, hosts>>

Call_get_grib1id_from_gribname ==
    /\ Idle
    /\ \E gribname \in GribNames :
        /\ call' = [op |-> "get_grib1id_from_gribname", gribname |-> gribname]
        /\ ret' = get_grib1id_from_gribname(gribname)
    /\ UNCHANGED <<tables, hosts>>

Call_get_date_from_gribname ==
    /\ Idle
    /\ \E gribname \in GribNames :
        /\ call' = [op |-> "get_date_from_gribname", gribname |-> gribname]
        /\ ret' = get_date_from_gribname(gribname)
    /\ UNCHANGED <<tables, hosts>>

\* The name get_mera_gribname returned is parsed back.
Built == call.op = "get_mera_gribname" /\ ret.ok

Parse_grib1id_of_built ==
    /\ Built
    /\ call' = [op |-> "get_grib1id_from_gribname", gribname |-> ret.v.v]
    /\ ret' = get_grib1id_from_gribname(ret.v.v)
    /\ UNCHANGED <<tables, hosts>>

Parse_date_of_built ==
    /\ Built
    /\ call' = [op |-> "get_date_from_gribname", gribname |-> ret.v.v]
    /\ ret' = get_date_from_gribname(ret.v.v)
    /\ UNCHANGED <<tables, hosts>>

\* The name get_mera_gribname returned is expanded into its path from the root.
Expand_built ==
    /\ Built
    /\ call' = [op |-> "expand_pathfromroot", gribname |-> ret.v.v,
                varname |-> call.varname, basetime |-> call.basetime,
                stream |-> call.stream, pathfromroot |-> call.pathfromroot]
    /\ ret' = expand_pathfromroot(ret.v.v)
    /\ UNCHANGED <<tables, hosts>>

Next ==
    \/ Call_get_grib1id_from_cfname
    \/ Call_add_vlevel_to_fieldnames
    \/ Call_get_mera_gribname
    \/ Call_get_mera_gribname_valtime
    \/ Call_get_grib1id_from_gribname
    \/ Call_get_date_from_gribname
    \/ Parse_grib1id_of_built
    \/ Parse_date_of_built
    \/ Expand_built

Spec == Init /\ [][Next]_vars

(***************************************************************************)
(* The inventory calls.  A run filters a list of file names or of          *)
(* variables by an inventory and may filter the file names it got again.   *)
(***************************************************************************)
Call_subset_present_gribnames ==
    /\ Idle
    /\ \E gribnames \in RequestedLists, fs \in FileSystems, exclude_bz2 \in BOOLEAN :
        /\ call' = [op |-> "subset_present_gribnames", gribnames |-> gribnames,
                    fs |-> fs, exclude_bz2 |-> exclude_bz2, nth |-> 1]
        /\ LET present == subset_present_gribnames(gribnames, fs, exclude_bz2)
           IN  IF present.ok THEN \E l \in list_of_set(present.v) : ret' = Ok(l)
               ELSE ret' = present
    /\ UNCHANGED <<tables, hosts>>

\* The list returned is filtered again by the same inventory.
Again_subset_present_gribnames ==
    /\ call.op = "subset_present_gribnames" /\ call.nth = 1 /\ ret.ok
    /\ call' = [call EXCEPT !.gribnames = ret.v, !.nth = 2]
    /\ LET present == subset_present_gribnames(ret.v, call.fs, call.exclude_bz2)
       IN  IF present.ok THEN \E l \in list_of_set(present.v) : ret' = Ok(l)
           ELSE ret' = present
    /\ UNCHANGED <<tables, hosts>>

Call_subset_present_variables ==
    /\ Idle
    /\ \E cfnames \in VariableLists, fs \in FileSystems :
        /\ call' = [op |-> "subset_present_variables", cfnames |-> cfnames, fs |-> fs]
        /\ ret' = subset_present_variables(cfnames, fs)
    /\ UNCHANGED <<tables, hosts>>

NextInventory ==
    \/ Call_subset_present_gribnames
    \/ Again_subset_present_gribnames
    \/ Call_subset_present_variables

SpecInventory == Init /\ [][NextInventory]_vars

(***************************************************************************)
(* The document calls.  A run writes a flat list of names to a document    *)
(* and reads the document back, or reads a document written by hand.       *)
(***************************************************************************)
Call_write_variables_to_yaml ==
    /\ Idle
    /\ \E cfnames \in NameLists :
        /\ call' = [op |-> "write_variables_to_yaml", cfnames |-> cfnames,
                    yaml_file |-> write_variables_to_yaml(cfnames)]
        /\ ret' = Ok(None)
    /\ UNCHANGED <<tables, hosts>>

\* The document write_variables_to_yaml wrote is read back.
Read_written_yaml ==
    /\ call.op = "write_variables_to_yaml"
    /\ call' = [op |-> "read_variables_from_yaml", yaml_file |-> call.yaml_file,
                written |-> TRUE, cfnames |-> call.cfnames]
    /\ ret' = read_variables_from_yaml(call.yaml_file)
    /\ UNCHANGED <<tables, hosts>>

Call_read_variables_from_yaml ==
    /\ Idle
    /\ \E doc \in Documents :
        /\ call' = [op |-> "read_variables_from_yaml", yaml_file |-> doc,
                    written |-> FALSE, cfnames |-> <<>>]
        /\ ret' = read_variables_from_yaml(doc)
    /\ UNCHANGED <<tables, hosts>>

NextYaml ==
    \/ Call_write_variables_to_yaml
    \/ Read_written_yaml
    \/ Call_read_variables_from_yaml

SpecYaml == Init /\ [][NextYaml]_vars

(***************************************************************************)
(* A session: up to MaxCalls calls of the resolvers, one after the other,  *)
(* in the same interpreter.  The call keeps the calls made before it.      *)
(***************************************************************************)
Before ==
    IF call.op = "none" THEN <<>>
    ELSE Append(call.before, [op |-> call.op, input |-> call.input, ok |-> ret.ok])

Session_get_grib1id_from_cfname ==
    /\ Len(Before) < MaxCalls
    /\ \E cfname \in SessionNames :
        /\ call' = [op |-> "get_grib1id_from_cfname", input |-> [cfname |-> cfname],
                    before |-> Before]
        /\ ret' = get_grib1id_from_cfname_with(tables, cfname)
        /\ tables' = tables_after(tables, StrV(cfname))
        /\ UNCHANGED hosts

Session_get_mera_gribname ==
    /\ Len(Before) < MaxCalls
    /\ \E varname \in SessionVarNames :
        /\ call' = [op |-> "get_mera_gribname",
                    input |-> [varname |-> varname, basetime |-> datetime(2017, 1, 1, 0),
                               stream |-> ANALYSIS, pathfromroot |-> FALSE],
                    before |-> Before]
        /\ ret' = get_mera_gribname_with(tables, varname, datetime(2017, 1, 1, 0),
                                         ANALYSIS, FALSE)
        /\ tables' = tables_after(tables, varname)
        /\ UNCHANGED hosts

Session_get_mera_gribname_valtime ==
    /\ Len(Before) < MaxCalls
    /\ \E varname \in SessionVarNames, valtime \in SessionTimes :
        /\ call' = [op |-> "get_mera_gribname_valtime",
                    input |-> [varname |-> varname, valtime |-> valtime,
                               pathfromroot |-> FALSE],
                    before |-> Before]
        /\ ret' = get_mera_gribname_valtime_with(tables, varname, valtime, FALSE)
        /\ tables' = tables_after(tables, varname)
        /\ UNCHANGED hosts

NextSession ==
    \/ Session_get_grib1id_from_cfname
    \/ Session_get_mera_gribname
    \/ Session_get_mera_gribname_valtime

SpecSession == Init /\ [][NextSession]_vars

(***************************************************************************)
(* Extraction runs (mera_explorer/forecasts.py): create_analysis and       *)
(* create_forcings read, for each validity time of a forecast, the MERA    *)
(* files of the variables they extract.  A run is the frame of the call:   *)
(* its arguments, the files present under MERAROOTDIR, its position in the *)
(* loops, what it printed and what it extracted.                           *)
(***************************************************************************)
\* MERAROOTDIR, the parent directory of all MERA GRIB files on the machine
MERAROOTDIR == <<"/", "MERA">>

\* step=dt.timedelta(hours=3), in seconds
DEFAULT_STEP == str_to_timedelta(<<"3", "h">>).v

toaswf_cfname == N(<<"toa", "incoming", "shortwave", "flux">>)

\* [basetime + i_ldt * step for i_ldt in range(-1, max_leadtime // step + 1)]
valtimes_of(basetime, max_leadtime, step) ==
    [ k \in 1..(max_leadtime \div step + 2) |-> datetime_sub(basetime, -((k - 2) * step)) ]

\* os.path.join(MERAROOTDIR, name) for the outcome name of the name builder
under_rootdir(name) ==
    IF ~name.ok THEN name ELSE Ok(os_path_join(<<MERAROOTDIR, name.v.v>>))

\* os.path.join(MERAROOTDIR, gribs.get_mera_gribname_valtime(cfname, val_t, pathfromroot=True))
source_gribname(cfname, val_t) ==
    under_rootdir(get_mera_gribname_valtime(StrV(cfname), val_t, TRUE))

\* os.path.isfile(gribname)
isfile(disk, gribname) == gribname \in disk

\* The frame when a run starts: outfiles holds, for each lead time, the base
\* time and lead time that the path of its output file is formatted from.
frame(op, basetime, cfnames, max_leadtime, disk) ==
    [op |-> op, basetime |-> basetime, cfnames |-> cfnames, disk |-> disk,
     max_leadtime |-> max_leadtime,
     valtimes |-> valtimes_of(basetime, max_leadtime, DEFAULT_STEP),
     i |-> 1, j |-> 1, printed |-> <<>>, extracted |-> <<>>, pc |-> "loop"]

\* One pass of the body of `for cfname in cfnames` of create_analysis, the
\* source file being gribname: a variable whose file is missing is reported
\* and skipped.
analysis_pass(f, gribname) ==
    IF ~gribname.ok THEN [f EXCEPT !.pc = "raised"]
    ELSE IF ~isfile(f.disk, gribname.v)
    THEN [f EXCEPT !.printed = Append(@, <<f.cfnames[f.j], gribname.v>>), !.j = @ + 1]
    ELSE [f EXCEPT !.extracted = Append(@, <<f.cfnames[f.j], f.valtimes[f.i]>>), !.j = @ + 1]

\* What the pass raises: the exception of the name builder, if any.
analysis_raised(gribname) == IF gribname.ok THEN Ok(None) ELSE gribname

\* One pass of the body of `for val_t in valtimes` of create_forcings, the
\* source file being gribname: gribs.get_data opens the file, whether it is
\* there or not.
forcings_pass(f, gribname) ==
    IF ~isfile(f.disk, gribname.v) THEN [f EXCEPT !.pc = "raised"]
    ELSE [f EXCEPT !.extracted = Append(@, <<toaswf_cfname, f.valtimes[f.i]>>), !.i = @ + 1]

forcings_raised(f, gribname) ==
    IF ~isfile(f.disk, gribname.v) THEN Raise(FileNotFoundError) ELSE Ok(None)

\* inferenceid="mera", as create_mera_analysis_and_forcings passes it
MERA_INFERENCEID == <<"mera">>

\* outgribnames: get_path_from_times(basetime, i_ldt * step, inferenceid) for
\* i_ldt in range(-1, max_leadtime // step + 1)
outgribnames(basetime, max_leadtime, step, inferenceid) ==
    [ k \in 1..(max_leadtime \div step + 2) |->
        get_path_from_times(basetime, (k - 2) * step, inferenceid) ]

\* forcings_file: "forcings" + basetime.strftime("%Y%m%d%H") + ".nc" in the
\* directory of the output file of lead time "0h"
forcings_file(basetime, inferenceid) ==
    os_path_join(<< dirname(get_path_from_times(basetime, 0, inferenceid)),
                    <<"forcings">> \o strftime(basetime) \o <<".", "nc">> >>)

(***************************************************************************)
(* The NWP loop of scripts/create_mera_sample.py, for one anchor time: for *)
(* each variable the data of the validity times are stacked in the array   *)
(* x, and x is appended to X.  An array is the sequence of the (variable,  *)
(* validity time) slices it was read from, its number of dimensions and    *)
(* whether its axes were swapped; ndim 0 stands for a name not bound yet.  *)
(***************************************************************************)
NameError == "NameError: name 'x' is not defined"

AxisError == "AxisError: axis2: axis 2 is out of bounds for array of dimension 2"

unbound == [slices |-> <<>>, ndim |-> 0, swapped |-> FALSE]

\* ss(gribs.get_data(gribname, val_t)): the field of one validity time
slice_of(cfname, val_t) == [slices |-> << <<cfname, val_t>> >>, ndim |-> 2, swapped |-> FALSE]

\* np.dstack((x, x_t))
dstack(x, x_t) == [slices |-> x.slices \o x_t.slices, ndim |-> 3, swapped |-> FALSE]

\* np.swapaxes(x, 0, 2) then np.swapaxes(x, 1, 2)
swapaxes(x) ==
    IF x.ndim = 0 THEN Raise(NameError)
    ELSE IF x.ndim = 2 THEN Raise(AxisError)
    ELSE Ok([x EXCEPT !.swapped = ~@])

\* utils.datetime_arange(anchor, anchor + tlag, tstep)
datetime_arange(anchor, tlag, tstep) ==
    [ k \in 1..((tlag + tstep - 1) \div tstep) |-> datetime_sub(anchor, -((k - 1) * tstep)) ]

sample_frame(anchor, cfnames, tlag, disk) ==
    [op |-> "create_mera_sample", anchor |-> anchor, cfnames |-> cfnames, disk |-> disk,
     valtimes |-> datetime_arange(anchor, tlag, DEFAULT_STEP),
     i |-> 1, j |-> 1, count |-> 0, x |-> unbound, X |-> <<>>,
     printed |-> <<>>, pc |-> "loop"]

\* One pass of the body of `for val_t in valtimes`, the source file being
\* gribname.
sample_pass(f, gribname) ==
    IF ~gribname.ok THEN [f EXCEPT !.pc = "raised"]
    ELSE IF ~isfile(f.disk, gribname.v)
    THEN [f EXCEPT !.printed = Append(@, <<f.cfnames[f.j], gribname.v>>), !.i = @ + 1]
    ELSE IF f.count = 0
    THEN [f EXCEPT !.x = slice_of(f.cfnames[f.j], f.valtimes[f.i]),
                   !.count = @ + 1, !.i = @ + 1]
    ELSE [f EXCEPT !.x = dstack(@, slice_of(f.cfnames[f.j], f.valtimes[f.i])),
                   !.count = @ + 1, !.i = @ + 1]

\* After the validity times of a variable: the axes of x are swapped and x
\* is appended to X; then the next variable, with count = 0.
sample_append(f, x) ==
    IF ~x.ok THEN [f EXCEPT !.pc = "raised"]
    ELSE [f EXCEPT !.x = x.v, !.X = Append(@, x.v), !.j = @ + 1, !.i = 1, !.count = 0]

\* Inputs of the runs.
MaxLeadSteps == 1

MaxRunNames == 2

RunBasetimes == { datetime(2017, 1, 1, 0) }

RunNames == { N(<<"air", "temperature">>), N(<<"precipitation", "amount">>) }

RunLists == SeqsUpTo(RunNames, MaxRunNames)

RunLeadtimes == { k * DEFAULT_STEP : k \in 0..MaxLeadSteps }

\* The files a run can ask for: those of the variables, for the last month
\* of 2016 and the first of 2017.
RunFiles ==
    { source_gribname(cfname, t).v :
        cfname \in RunNames \cup {toaswf_cfname},
        t \in { datetime(2016, 12, 15, 12), datetime(2017, 1, 15, 12) } }

Disks == SUBSET RunFiles

Start_create_analysis ==
    /\ Idle
    /\ \E basetime \in RunBasetimes, cfnames \in RunLists,
          max_leadtime \in RunLeadtimes, disk \in Disks :
        call' = frame("create_analysis", basetime, cfnames, max_leadtime, disk)
    /\ ret' = Ok(None)
    /\ UNCHANGED <<tables, hosts>>

Running(op) == call.op = op /\ call.pc = "loop"

\* The pass of the inner loop of create_analysis on the file gribname.
Analysis_read(gribname) ==
    /\ call' = analysis_pass(call, gribname)
    /\ ret' = analysis_raised(gribname)
    /\ UNCHANGED <<tables, hosts>>

\* for cfname in cfnames: one variable of the current lead time
Analysis_variable ==
    /\ Running("create_analysis")
    /\ call.i <= Len(call.valtimes)
    /\ call.j <= Len(call.cfnames)
    /\ Analysis_read(source_gribname(call.cfnames[call.j], call.valtimes[call.i]))

\* After the variables of a lead time: cat and rm of the files of the
\* variables, then the next lead time.
Analysis_concatenate ==
    /\ Running("create_analysis")
    /\ call.i <= Len(call.valtimes)
    /\ call.j > Len(call.cfnames)
    /\ call' = [call EXCEPT !.i = @ + 1, !.j = 1]
    /\ UNCHANGED <<ret, tables, hosts>>

Analysis_return ==
    /\ Running("create_analysis")
    /\ call.i > Len(call.valtimes)
    /\ call' = [call EXCEPT !.pc = "returned"]
    /\ ret' = Ok(outgribnames(call.basetime, call.max_leadtime, DEFAULT_STEP, MERA_INFERENCEID))
    /\ UNCHANGED <<tables, hosts>>

Start_create_forcings ==
    /\ Idle
    /\ \E basetime \in RunBasetimes, max_leadtime \in RunLeadtimes, disk \in Disks :
        call' = frame("create_forcings", basetime, <<toaswf_cfname>>, max_leadtime, disk)
    /\ ret' = Ok(None)
    /\ UNCHANGED <<tables, hosts>>

\* The pass of the loop of create_forcings on the file gribname.
Forcings_read(gribname) ==
    /\ call' = forcings_pass(call, gribname)
    /\ ret' = forcings_raised(call, gribname)
    /\ UNCHANGED <<tables, hosts>>

\* for val_t in valtimes: the TOA flux of one validity time
Forcings_valtime ==
    /\ Running("create_forcings")
    /\ call.i <= Len(call.valtimes)
    /\ Forcings_read(source_gribname(toaswf_cfname, call.valtimes[call.i]))

Forcings_return ==
    /\ Running("create_forcings")
    /\ call.i > Len(call.valtimes)
    /\ call' = [call EXCEPT !.pc = "returned"]
    /\ ret' = Ok(forcings_file(call.basetime, MERA_INFERENCEID))
    /\ UNCHANGED <<tables, hosts>>

SampleAnchors == { datetime(2016, 12, 31, 21), datetime(2017, 1, 1, 0) }

SampleLags == { k * DEFAULT_STEP : k \in 1..(MaxLeadSteps + 2) }

Start_create_mera_sample ==
    /\ Idle
    /\ \E anchor \in SampleAnchors, cfnames \in RunLists,
          tlag \in SampleLags, disk \in Disks :
        call' = sample_frame(anchor, cfnames, tlag, disk)
    /\ ret' = Ok(None)
    /\ UNCHANGED <<tables, hosts>>

\* The pass of the inner loop of the sample on the file gribname.
Sample_read(gribname) ==
    /\ call' = sample_pass(call, gribname)
    /\ ret' = analysis_raised(gribname)
    /\ UNCHANGED <<tables, hosts>>

\* for val_t in valtimes: one validity time of the current variable
Sample_valtime ==
    /\ Running("create_mera_sample")
    /\ call.j <= Len(call.cfnames)
    /\ call.i <= Len(call.valtimes)
    /\ Sample_read(source_gribname(call.cfnames[call.j], call.valtimes[call.i]))

\* The end of the pass of a variable, x being the array with its axes
\* swapped.
Sample_appended(x) ==
    /\ call' = sample_append(call, x)
    /\ ret' = IF x.ok THEN Ok(None) ELSE x
    /\ UNCHANGED <<tables, hosts>>

\* After the validity times of a variable: X.append(x)
Sample_append ==
    /\ Running("create_mera_sample")
    /\ call.j <= Len(call.cfnames)
    /\ call.i > Len(call.valtimes)
    /\ Sample_appended(swapaxes(call.x))

\* After the variables: np.stack(X, axis=-1) is saved.
Sample_save ==
    /\ Running("create_mera_sample")
    /\ call.j > Len(call.cfnames)
    /\ call' = [call EXCEPT !.pc = "returned"]
    /\ ret' = Ok(None)
    /\ UNCHANGED <<tables, hosts>>

NextRun ==
    \/ Start_create_analysis
    \/ Analysis_variable
    \/ Analysis_concatenate
    \/ Analysis_return
    \/ Start_create_forcings
    \/ Forcings_valtime
    \/ Forcings_return
    \/ Start_create_mera_sample
    \/ Sample_valtime
    \/ Sample_append
    \/ Sample_save

SpecRun == Init /\ [][NextRun]_vars

(***************************************************************************)
(* Durations: calls of utils.str_to_timedelta on strings.                  *)
(***************************************************************************)
MaxCount == 12

DurationCounts == 0..MaxCount

DurationUnits == {"d", "h", "m", "s", "D", "H", "M", "S", "w"}

DurationStrings == { IntStr(n) \o <<u>> : n \in DurationCounts, u \in DurationUnits }

Call_str_to_timedelta ==
    /\ \E strdelta \in DurationStrings :
        /\ call' = [op |-> "str_to_timedelta", strdelta |-> strdelta]
        /\ ret' = str_to_timedelta(strdelta)
    /\ UNCHANGED <<tables, hosts>>

NextDurations == Call_str_to_timedelta

SpecDurations == Init /\ [][NextDurations]_vars

(***************************************************************************)
(* Transfers: the set-up of the transfer test, then a transfer there       *)
(* (put, mput) and a transfer back (get, mget).                            *)
(***************************************************************************)
MaxFiles == 2

TransferClasses == {"LocalTransfer", "SSHTransfer", "FTPTransfer"}

FileData == {"x", "y"}

TMP == <<"tmp">>

TestFile(i) == <<"transfertestfile", "_">> \o IntStr(i - 1) \o <<".", "txt">>

\* loc_srcs, loc_trgs, rem_trgs of the test, the first n of them
loc_srcs(n) == [ i \in 1..n |-> os_path_join(<<TMP, <<"src">>, TestFile(i)>>) ]

loc_trgs(n) == [ i \in 1..n |-> os_path_join(<<TMP, <<"trg">>, TestFile(i)>>) ]

rem_trgs(n) == [ i \in 1..n |-> os_path_join(<<TMP, TestFile(i)>>) ]

\* The local files after os.makedirs("tmp/src") and np.savetxt(src, x) for
\* each source, with or without a directory tmp/trg.
LocalSetup(data, trgdir) ==
    [dirs |-> {TMP, os_path_join(<<TMP, <<"src">>>>)}
              \cup (IF trgdir THEN {os_path_join(<<TMP, <<"trg">>>>)} ELSE {}),
     files |-> { <<loc_srcs(MaxFiles)[i], data[i]>> : i \in 1..MaxFiles }]

\* The files in the home directory of the remote user, with or without a
\* directory tmp.
RemoteSetup(tmpdir) == [dirs |-> IF tmpdir THEN {TMP} ELSE {}, files |-> {}]

Setup ==
    /\ Idle
    /\ \E cls \in TransferClasses, data \in [1..MaxFiles -> FileData],
          trgdir \in BOOLEAN, tmpdir \in BOOLEAN :
        /\ call' = [op |-> "setup", cls |-> cls]
        /\ hosts' = [loc |-> LocalSetup(data, trgdir),
                     rem |-> IF cls = "LocalTransfer" THEN NoFiles
                             ELSE RemoteSetup(tmpdir)]
    /\ ret' = Ok(None)
    /\ UNCHANGED tables

\* The state after a method of the transfer object: its outcome r.
Transferred(op, srcs, trgs, r) ==
    /\ call' = [op |-> op, cls |-> call.cls, srcs |-> srcs, trgs |-> trgs,
                before |-> hosts, ok |-> r.ok, sent |-> call]
    /\ ret' = IF r.ok THEN Ok(None) ELSE Raise(r.v)
    /\ hosts' = r.hosts
    /\ UNCHANGED tables

Call_put ==
    /\ call.op = "setup"
    /\ \E i \in 1..MaxFiles :
        Transferred("put", <<loc_srcs(MaxFiles)[i]>>, <<rem_trgs(MaxFiles)[i]>>,
                    put(call.cls, hosts, loc_srcs(MaxFiles)[i], rem_trgs(MaxFiles)[i]))

Call_get ==
    /\ call.op \in {"setup", "put"}
    /\ \E i \in 1..MaxFiles :
       \E src \in {loc_srcs(MaxFiles)[i], rem_trgs(MaxFiles)[i]} :
        Transferred("get", <<src>>, <<loc_trgs(MaxFiles)[i]>>,
                    get(call.cls, hosts, src, loc_trgs(MaxFiles)[i]))

Call_mput ==
    /\ call.op = "setup"
    /\ \E n \in 0..MaxFiles, m \in 0..MaxFiles :
        Transferred("mput", loc_srcs(n), rem_trgs(m),
                    mput(call.cls, hosts, loc_srcs(n), rem_trgs(m)))

Call_mget ==
    /\ call.op = "mput"
    /\ \E n \in 0..MaxFiles, m \in 0..MaxFiles :
        Transferred("mget", rem_trgs(n), loc_trgs(m),
                    mget(call.cls, hosts, rem_trgs(n), loc_trgs(m)))

NextTransfer ==
    \/ Setup
    \/ Call_put
    \/ Call_get
    \/ Call_mput
    \/ Call_mget

SpecTransfer == Init /\ [][NextTransfer]_vars

(***************************************************************************)
(* Atmosphere states: a list of states is concatenated, then the tensor is *)
(* separated.                                                              *)
(***************************************************************************)
MaxStates == 2

MaxGrid == 2

StateNames == {"t", "u"}

\* The lists of variable names, each name at most once.
StateNameLists ==
    { l \in SeqsUpTo(StateNames, Cardinality(StateNames)) :
        \A i, j \in 1..Len(l) : i # j => l[i] # l[j] }

GridShapes == (1..MaxGrid) \X (1..MaxGrid)

\* The matrix of a grid whose cells are all different, from the number c.
Field(gridshape, c) ==
    [ i \in 1..gridshape[1] |-> [ j \in 1..gridshape[2] |-> c + 10 * i + j ] ]

\* The lists of nt states with the names and the grid given, the field of
\* each variable of each state counted from 0 or from 100.
StateLists(names, gridshape) ==
    UNION { { [ it \in 1..nt |-> [ iv \in 1..Len(names) |->
                  dict_item(names[iv], Field(gridshape, c[it][iv])) ] ] :
              c \in [1..nt -> [1..Len(names) -> {0, 100}]] } : nt \in 0..MaxStates }

Call_concatenate_states ==
    /\ Idle
    /\ \E names \in StateNameLists, gridshape \in GridShapes :
       \E states \in StateLists(names, gridshape) :
        /\ call' = [op |-> "concatenate_states", states |-> states,
                    cfnames |-> names, gridshape |-> gridshape]
        /\ ret' = concatenate_states(states)
    /\ UNCHANGED <<tables, hosts>>

Separate_concatenated ==
    /\ call.op = "concatenate_states"
    /\ ret.ok
    /\ \E cfnames \in StateNameLists,
          gridshape \in {call.gridshape, <<call.gridshape[2], call.gridshape[1]>>, <<1, 1>>} :
        /\ call' = [op |-> "separate_states", states |-> call.states, state |-> ret.v,
                    cfnames |-> cfnames, gridshape |-> gridshape]
        /\ ret' = separate_states(ret.v, cfnames, gridshape)
    /\ UNCHANGED <<tables, hosts>>

NextStates ==
    \/ Call_concatenate_states
    \/ Separate_concatenated

SpecStates == Init /\ [][NextStates]_vars

(***************************************************************************)
(* Requests: the names of the files of lists of variables and validity     *)
(* times, as copy_from_reaext asks for them.                               *)
(***************************************************************************)
\* streams = ["ANALYSIS"]
DEFAULT_STREAMS == <<ANALYSIS>>

RequestVarNames ==
    { StrV(N(<<"air", "temperature">>)),
      StrV(N(<<"precipitation", "amount">>)),
      StrV(toaswf_cfname),
      StrV(N(<<"sea", "surface", "temperature">>)),
      Code(11, 105, 2, 0) }

RequestTimes ==
    { datetime(2017, 1, 1, 0), datetime(2017, 1, 15, 12), datetime(2016, 12, 31, 23) }

Call_get_all_mera_gribnames ==
    /\ Idle
    /\ \E varnames \in SeqsUpTo(RequestVarNames, MaxRequested),
          valtimes \in SeqsUpTo(RequestTimes, MaxRequested),
          streams \in {DEFAULT_STREAMS, <<ANALYSIS, FC3hr>>},
          pathfromroot \in BOOLEAN :
        /\ call' = [op |-> "get_all_mera_gribnames", varnames |-> varnames,
                    valtimes |-> valtimes, streams |-> streams,
                    pathfromroot |-> pathfromroot]
        /\ ret' = get_all_mera_gribnames(varnames, valtimes, streams, pathfromroot)
    /\ UNCHANGED <<tables, hosts>>

NextRequest == Call_get_all_mera_gribnames

SpecRequest == Init /\ [][NextRequest]_vars

(***************************************************************************)
(* Reads: the file of a variable is resolved for a validity time, then     *)
(* get_data selects the validity time in it.                               *)
(***************************************************************************)
Resolve_for_read ==
    /\ Idle
    /\ \E varname \in RequestVarNames, valtime \in ValTimes, pathfromroot \in BOOLEAN :
        /\ call' = [op |-> "get_mera_gribname_valtime", varname |-> varname,
                    valtime |-> valtime, pathfromroot |-> pathfromroot]
        /\ ret' = get_mera_gribname_valtime(varname, valtime, pathfromroot)
    /\ UNCHANGED <<tables, hosts>>

Call_get_data ==
    /\ call.op = "get_mera_gribname_valtime"
    /\ ret.ok
    /\ call' = [op |-> "get_data", gribname |-> ret.v.v, valtimes |-> call.valtime]
    /\ ret' = get_data(ret.v.v, call.valtime)
    /\ UNCHANGED <<tables, hosts>>

NextRead ==
    \/ Resolve_for_read
    \/ Call_get_data

SpecRead == Init /\ [][NextRead]_vars

(***************************************************************************)
(* Paths: a path is formatted from times, then the times are parsed from   *)
(* it.                                                                     *)
(***************************************************************************)
\* Lead times in hours, on both sides of the widths -99 and 999.
LeadHours == {-100, -99, -3, -1, 0, 1, 3, 30, 99, 100, 999, 1000}

InferenceIds == { <<"aifc">>, <<>>, <<"run", "_", "2">>, <<"a", "+", "b">> }

Call_get_path_from_times ==
    /\ Idle
    /\ \E basetime \in BaseTimes, hours \in LeadHours, inferenceid \in InferenceIds :
        /\ call' = [op |-> "get_path_from_times", basetime |-> basetime,
                    leadtime |-> hours * 3600, inferenceid |-> inferenceid]
        /\ ret' = Ok(StrV(get_path_from_times(basetime, hours * 3600, inferenceid)))
    /\ UNCHANGED <<tables, hosts>>

Parse_times_of_path ==
    /\ call.op = "get_path_from_times"
    /\ ret.ok
    /\ call' = [op |-> "get_times_from_gribname", gribname |-> ret.v.v,
                basetime |-> call.basetime, leadtime |-> call.leadtime,
                inferenceid |-> call.inferenceid]
    /\ ret' = get_times_from_gribname(ret.v.v)
    /\ UNCHANGED <<tables, hosts>>

NextPaths ==
    \/ Call_get_path_from_times
    \/ Parse_times_of_path

SpecPaths == Init /\ [][NextPaths]_vars

(***************************************************************************)
(* Extraction of a period (create_mera_analysis_and_forcings of            *)
(* forecasts.py): the number of files is announced, then for each base     *)
(* time the analysis files and the forcings file are written.  The frame   *)
(* holds the base times, what was announced, the lists create_analysis     *)
(* returned and the paths written so far; toa_missing is the index of the  *)
(* base time, if any, whose TOA flux file is not on the disk.              *)
(***************************************************************************)
MaxBasetimes == 3

ExtractionStarts == { datetime(2017, 1, 1, 0), datetime(2016, 12, 31, 21) }

\* enddate - startdate
ExtractionPeriods == { <<"1", "h">>, <<"9", "h">>, <<"6", "d">> }

ExtractionTextracts == { <<"3", "0", "m">>, <<"3", "h">>, <<"7", "2", "h">> }

ExtractionLeadtimes == { <<"0", "h">>, <<"3", "h">>, <<"6", "h">> }

ExtractionSteps == { <<"3", "0", "m">>, <<"1", "h">>, <<"3", "h">> }

\* f"Writing {len(basetimes) * (max_leadtime//step + 3)} files from MERA in ..."
announced_files(basetimes, max_leadtime, step) ==
    Len(basetimes) * (max_leadtime \div step + 3)

extraction_frame(basetimes, max_leadtime, step, toa_missing) ==
    [op |-> "create_mera_analysis_and_forcings", basetimes |-> basetimes,
     max_leadtime |-> max_leadtime, step |-> step, toa_missing |-> toa_missing,
     announced |-> announced_files(basetimes, max_leadtime, step),
     i |-> 1, returned |-> <<>>, written |-> {}, pc |-> "loop"]

\* One pass of `for i_bt, basetime in enumerate(basetimes)`: create_analysis
\* writes the file of each lead time (cat ... > outgribname) and returns the
\* list paths; create_forcings then writes the forcings file, or raises when
\* the TOA flux file is missing.
extraction_pass(f, paths, forcings) ==
    IF f.toa_missing = f.i
    THEN [f EXCEPT !.returned = Append(@, paths), !.written = @ \cup Range(paths),
                   !.pc = "raised"]
    ELSE [f EXCEPT !.returned = Append(@, paths),
                   !.written = @ \cup Range(paths) \cup {forcings}, !.i = @ + 1]

Start_create_mera_analysis_and_forcings ==
    /\ Idle
    /\ \E startdate \in ExtractionStarts, period \in ExtractionPeriods,
          textract \in ExtractionTextracts, max_leadtime \in ExtractionLeadtimes,
          step \in ExtractionSteps, toa_missing \in 0..MaxBasetimes :
        LET basetimes == datetime_arange(startdate, str_to_timedelta(period).v,
                                         str_to_timedelta(textract).v)
        IN  /\ Len(basetimes) <= MaxBasetimes
            /\ toa_missing <= Len(basetimes)
            /\ call' = extraction_frame(basetimes, str_to_timedelta(max_leadtime).v,
                                        str_to_timedelta(step).v, toa_missing)
    /\ ret' = Ok(None)
    /\ UNCHANGED <<tables, hosts>>

Extraction_written(f) ==
    /\ call' = f
    /\ ret' = IF f.pc = "raised" THEN Raise(FileNotFoundError) ELSE Ok(None)
    /\ UNCHANGED <<tables, hosts>>

Extraction_basetime ==
    /\ Running("create_mera_analysis_and_forcings")
    /\ call.i <= Len(call.basetimes)
    /\ Extraction_written(
         extraction_pass(call,
                         outgribnames(call.basetimes[call.i], call.max_leadtime,
                                      call.step, MERA_INFERENCEID),
                         forcings_file(call.basetimes[call.i], MERA_INFERENCEID)))

Extraction_return ==
    /\ Running("create_mera_analysis_and_forcings")
    /\ call.i > Len(call.basetimes)
    /\ call' = [call EXCEPT !.pc = "returned"]
    /\ ret' = Ok(None)
    /\ UNCHANGED <<tables, hosts>>

NextExtraction ==
    \/ Start_create_mera_analysis_and_forcings
    \/ Extraction_basetime
    \/ Extraction_return

SpecExtraction == Init /\ [][NextExtraction]_vars

(***************************************************************************)
(* Writing a forecast (forecasts.py, write_forecast): the forecast is      *)
(* separated into states with the variables and the grid of the template   *)
(* file, the states are restricted to the variables to write, and one file *)
(* per lead time is written on the local host.  A GRIB file holds the      *)
(* names of its variables.                                                 *)
(***************************************************************************)
\* variables_to_write="all"
ALL == StrV(<<"all">>)

ListV(xs) == [t |-> "list", v |-> xs]

\* isinstance(variables_to_write, list)
isinstance_list(x) == x.t = "list"

\* {k: state[k] for k in variables_to_write}, every k being a key of state
restricted(state, variables_to_write) ==
    [ i \in 1..Len(variables_to_write) |->
        CHOOSE it \in Range(state) : it.key = variables_to_write[i] ]

\* The states after `if isinstance(variables_to_write, list)`: the assertion,
\* then state[k] for each k, a KeyError for a k that is no key.
states_to_write(states, variables_to_write, cfnames) ==
    IF ~isinstance_list(variables_to_write) THEN Ok(states)
    ELSE IF ~(Cardinality(Range(variables_to_write.v) \cap Range(cfnames)) > 0)
    THEN Raise(AssertionError)
    ELSE IF Len(states) > 0 /\ ~(Range(variables_to_write.v) \subseteq Range(cfnames))
    THEN Raise(KeyError)
    ELSE Ok([ i \in 1..Len(states) |-> restricted(states[i], variables_to_write.v) ])

\* write_in_grib(data, template_file, outgribname): the lead time is parsed
\* from the name, the fields are written one file per variable, and cat and
\* rm leave the one file outgribname.
write_in_grib(fs, data, times, outgribname) ==
    IF ~times.ok THEN FsRaise(times.v, fs)
    ELSE FsOk(written(fs, outgribname, keys(data)))

then_write_in_grib(r, data, outgribname) ==
    IF ~r.ok THEN r
    ELSE write_in_grib(r.fs, data, get_times_from_gribname(outgribname), outgribname)

\* The body of `for i_ldt in range(len(states))` for the file outgribname
written_forecast(fs, data, outgribname) ==
    then_write_in_grib(makedirs(fs, dirname(outgribname)), data, outgribname)

\* forecast_files.append(outgribname), after the file was written
appended(forecast_files, w, outgribname) ==
    IF ~w.ok THEN w
    ELSE [ok |-> TRUE, v |-> Append(forecast_files, outgribname), fs |-> w.fs]

write_state(r, data, outgribname) ==
    appended(r.v, written_forecast(r.fs, data, outgribname), outgribname)

\* The loop of write_forecast from the state i on, r.v being forecast_files:
\* leadtime = step * (i_ldt + 1)
RECURSIVE then_write_states(_, _, _, _, _, _)
then_write_states(r, states, i, basetime, step, inferenceid) ==
    IF ~r.ok \/ i > Len(states) THEN r
    ELSE then_write_states(
           write_state(r, states[i], get_path_from_times(basetime, step * i, inferenceid)),
           states, i + 1, basetime, step, inferenceid)

\* write_forecast from the loop on, states being the states to write
write_states(fs, states, basetime, inferenceid, step) ==
    IF ~states.ok THEN FsRaise(states.v, fs)
    ELSE then_write_states([ok |-> TRUE, v |-> <<>>, fs |-> fs], states.v, 1,
                           basetime, step, inferenceid)

\* write_forecast after separate_states returned
write_separated(fs, states, variables_to_write, cfnames, basetime, inferenceid, step) ==
    IF ~states.ok THEN FsRaise(states.v, fs)
    ELSE write_states(fs, states_to_write(states.v, variables_to_write, cfnames),
                      basetime, inferenceid, step)

\* write_forecast(forecast, basetime, inferenceid, variables_to_write, step),
\* cfnames and gridshape being read from the template file
write_forecast(fs, forecast, basetime, inferenceid, variables_to_write, step, cfnames, gridshape) ==
    write_separated(fs, separate_states(forecast, cfnames, gridshape),
                    variables_to_write, cfnames, basetime, inferenceid, step)

\* grib_template = get_path_from_times(basetime, "0h", "mera")
grib_template(basetime) == get_path_from_times(basetime, 0, MERA_INFERENCEID)

\* The local host with the template file of a base time.
WithTemplate(basetime, cfnames) ==
    written(makedirs(NoFiles, dirname(grib_template(basetime))).fs,
            grib_template(basetime), cfnames)

\* Inputs: the variables of the forecast are among t and u, those to write
\* among t, u and v.
WriteNames == StateNames \cup {"v"}

VariablesToWrite ==
    {ALL} \cup { ListV(l) : l \in { l \in SeqsUpTo(WriteNames, 2) :
                                     \A i, j \in 1..Len(l) : i # j => l[i] # l[j] } }

ForecastIds == { <<"aifc">>, <<"persistence">> }

\* A forecast and the template file of its base time on the local host.
Forecast_setup ==
    /\ Idle
    /\ \E cfnames \in StateNameLists \ {<<>>}, gridshape \in GridShapes,
          variables_to_write \in VariablesToWrite, inferenceid \in ForecastIds :
       \E states \in StateLists(cfnames, gridshape) :
        /\ concatenate_states(states).ok
        /\ call' = [op |-> "forecast", cfnames |-> cfnames, gridshape |-> gridshape,
                    variables_to_write |-> variables_to_write, inferenceid |-> inferenceid,
                    basetime |-> datetime(2017, 1, 1, 0),
                    forecast |-> concatenate_states(states).v,
                    before |-> WithTemplate(datetime(2017, 1, 1, 0), cfnames)]
        /\ hosts' = [hosts EXCEPT !.loc = WithTemplate(datetime(2017, 1, 1, 0), cfnames)]
    /\ ret' = Ok(None)
    /\ UNCHANGED tables

Forecast_written(r) ==
    /\ hosts' = [hosts EXCEPT !.loc = r.fs]
    /\ ret' = [ok |-> r.ok, v |-> r.v]
    /\ call' = [call EXCEPT !.op = "write_forecast"]
    /\ UNCHANGED tables

Call_write_forecast ==
    /\ call.op = "forecast"
    /\ Forecast_written(write_forecast(hosts.loc, call.forecast, call.basetime,
                                       call.inferenceid, call.variables_to_write,
                                       DEFAULT_STEP, call.cfnames, call.gridshape))

NextForecast ==
    \/ Forecast_setup
    \/ Call_write_forecast

SpecForecast == Init /\ [][NextForecast]_vars

(***************************************************************************)
(* Properties                                                              *)
(***************************************************************************)
\* The underscore-delimited fields of the file name a call returned.
NameFields == split(basename(ret.v.v), US)

\* A month as two digits.
MM(m) == IF m < 10 THEN <<"0", Digits[m + 1]>> ELSE <<"1", Digits[m - 9]>>

\* <<year, month>> of the instant three hours before t.
ThreeHoursBefore(t) ==
    IF t.hour >= 3 \/ t.day > 1 THEN <<t.year, t.month>>
    ELSE IF t.month > 1 THEN <<t.year, t.month - 1>>
    ELSE <<t.year - 1, 12>>

Resolved(varname) == grib1id_of(varname).ok

TriOf(varname) == grib1id_of(varname).v.v[4]

\* C1: for a variable whose time-range indicator resolves to 4,
\* get_mera_gribname_valtime returns a name of stream FC3hr whose year and
\* month are those of the validity time minus 3 hours.
C1_CumulativeNameIsFC3hrOfThreeHoursBefore ==
    ( /\ call.op = "get_mera_gribname_valtime"
      /\ Resolved(call.varname)
      /\ PyEq(TriOf(call.varname), IntV(4)) )
    => /\ ret.ok
       /\ LET f == NameFields
          IN  /\ Len(f) = 9
              /\ f[9] = FC3hr
              /\ f[3] = IntStr(ThreeHoursBefore(call.valtime)[1])
              /\ f[4] = MM(ThreeHoursBefore(call.valtime)[2])

\* C1 witness: precipitation_amount at 2017-01-01 00:00 gives the FC3hr file of 2016-12.
C1_Witness ==
    /\ call.op = "get_mera_gribname_valtime"
    /\ call.varname = StrV(N(<<"precipitation", "amount">>))
    /\ call.valtime = datetime(2017, 1, 1, 0)
    /\ ret.ok
    /\ NameFields[3] = <<"2", "0", "1", "6">>
    /\ NameFields[4] = <<"1", "2">>
    /\ NameFields[9] = FC3hr

\* C2: for a variable whose time-range indicator resolves to anything but 4,
\* get_mera_gribname_valtime returns a name of stream ANALYSIS whose year and
\* month are those of the validity time.
C2_InstantaneousNameIsAnalysisOfValtime ==
    ( /\ call.op = "get_mera_gribname_valtime"
      /\ Resolved(call.varname)
      /\ ~PyEq(TriOf(call.varname), IntV(4)) )
    => /\ ret.ok
       /\ LET f == NameFields
          IN  /\ Len(f) = 9
              /\ f[9] = ANALYSIS
              /\ f[3] = IntStr(call.valtime.year)
              /\ f[4] = MM(call.valtime.month)

\* C2 witness: maximum_temperature (indicator 2) at 2017-01-01 00:00 gives
\* the ANALYSIS file of 2017-01.
C2_Witness ==
    /\ call.op = "get_mera_gribname_valtime"
    /\ call.varname = StrV(N(<<"maximum", "temperature">>))
    /\ call.valtime = datetime(2017, 1, 1, 0)
    /\ ret.ok
    /\ ret.v.v = join(US, << <<"MERA">>, <<"PRODYEAR">>, <<"2", "0", "1", "7">>,
                             <<"0", "1">>, <<"1", "5">>, <<"1", "0", "5">>, <<"2">>,
                             <<"2">>, <<"ANALYSIS">> >>)

\* C3: for every key of the table, the bare name resolves to the table's tuple.
C3_BareNameGivesTableTuple ==
    ( /\ call.op = "get_grib1id_from_cfname"
      /\ call.cfname \in DOMAIN cfname_to_default_grib1id )
    => /\ ret.ok
       /\ LET d == cfname_to_default_grib1id[call.cfname]
          IN  PyEq(ret.v, Code(d[1], d[2], d[3], d[4]))

\* C3 witness: geopotential_height resolves to (7, 100, 850, 0).
C3_Witness ==
    /\ call.op = "get_grib1id_from_cfname"
    /\ call.cfname = N(<<"geopotential", "height">>)
    /\ ret.ok
    /\ PyEq(ret.v, Code(7, 100, 850, 0))

\* The level type the claim gives for each unit.
ItlOfUnit(u) == IF u = <<"hPa">> THEN 100 ELSE IF u = <<"metres">> THEN 105 ELSE 20

\* C4: for every table name n, unit u in {hPa, metres, kelvin} and level L,
\* n_at_L_u resolves to the table's IOP and TRI, the level type of u and the
\* level L; and the suffix of every name add_vlevel_to_fieldnames builds
\* parses back to its level and its unit.
\* Every name n_at_L_u of the claim with the code the claim gives it.
C4_Cases ==
    { << n \o <<"_", "at", "_">> \o IntStr(L) \o <<"_">> \o u,
         Code(cfname_to_default_grib1id[n][1], ItlOfUnit(u), L,
              cfname_to_default_grib1id[n][4]) >> :
      n \in TableNames, L \in Levels, u \in Units }

C4_LevelSuffixOverridesAndParsesBack ==
    /\ call.op = "get_grib1id_from_cfname" =>
         \A c \in C4_Cases :
            call.cfname = c[1] => ret.ok /\ PyEq(ret.v, c[2])
    /\ call.op = "add_vlevel_to_fieldnames" =>
         /\ Len(ret.v) = Len(call.lfn) * Len(call.lvlvl)
         /\ \A i \in 1..Len(call.lfn), j \in 1..Len(call.lvlvl) :
               LET name == ret.v[(i - 1) * Len(call.lvlvl) + j]
               IN  /\ split(name, AT)[1] = call.lfn[i]
                   /\ level_suffix(name).ok
                   /\ int(level_suffix(name).v[1]).ok
                   /\ int(level_suffix(name).v[1]).v = call.lvlvl[j].v
                   /\ level_suffix(name).v[2] = call.vlvl_unit

\* C4 witness: air_temperature_at_850_hPa resolves to (11, 100, 850, 0).
C4_Witness ==
    /\ call.op = "get_grib1id_from_cfname"
    /\ call.cfname = N(<<"air", "temperature", "at">>) \o <<"_", "8", "5", "0", "_", "hPa">>
    /\ ret.ok
    /\ PyEq(ret.v, Code(11, 100, 850, 0))

\* What may stand for the level word of n_at_w_level.
LevelWordInputs == LevelWords \cup {IntStr(n) : n \in Levels}

\* C5: for every table name n and level word w, n_at_w_level resolves to the
\* table's IOP and TRI, level 0 and level type 103 when w is "sea", 105
\* otherwise; air_pressure_at_sea_level is (1, 103, 0, 0) and
\* air_pressure_at_surface_level is (1, 105, 0, 0).
\* Every name n_at_w_level of the claim with the code the claim gives it.
C5_Cases ==
    { << n \o <<"_", "at", "_">> \o w \o <<"_", "level">>,
         Code(cfname_to_default_grib1id[n][1], IF w = <<"sea">> THEN 103 ELSE 105, 0,
              cfname_to_default_grib1id[n][4]) >> :
      n \in TableNames, w \in LevelWordInputs }

C5_LevelWordGivesSeaOrSurface ==
    call.op = "get_grib1id_from_cfname" =>
      /\ \A c \in C5_Cases :
            call.cfname = c[1] => ret.ok /\ PyEq(ret.v, c[2])
      /\ call.cfname = <<"air", "_", "pressure", "_", "at", "_", "sea", "_", "level">>
            => ret.ok /\ PyEq(ret.v, Code(1, 103, 0, 0))
      /\ call.cfname = <<"air", "_", "pressure", "_", "at", "_", "surface", "_", "level">>
            => ret.ok /\ PyEq(ret.v, Code(1, 105, 0, 0))

\* C5 witness: geopotential_height_at_sea_level resolves to (7, 103, 0, 0).
C5_Witness ==
    /\ call.op = "get_grib1id_from_cfname"
    /\ call.cfname = N(<<"geopotential", "height", "at", "sea", "level">>)
    /\ ret.ok
    /\ PyEq(ret.v, Code(7, 103, 0, 0))

\* The four fields of the code a variable stands for (the tuple itself, or
\* the resolution of the name), each as the file name must show it.
CodeFields(varname) ==
    LET code == grib1id_of(varname).v.v
    IN  [i \in 1..4 |-> IF code[i].t = "int" THEN IntStr(code[i].v) ELSE code[i].v]

\* C6: get_mera_gribname produces MERA_PRODYEAR_<YYYY>_<MM>_<IOP>_<ITL>_<LEV>_<TRI>_<STREAM>:
\* nine fields joined by single underscores, the month on two digits, the
\* other numbers in plain decimal.
C6_GribnameFormat ==
    (call.op = "get_mera_gribname" /\ ret.ok)
    => /\ LET code == CodeFields(call.varname)
          IN  basename(ret.v.v) =
                <<"MERA", "_", "PRODYEAR", "_">> \o IntStr(call.basetime.year)
                \o <<"_">> \o MM(call.basetime.month)
                \o <<"_">> \o code[1] \o <<"_">> \o code[2]
                \o <<"_">> \o code[3] \o <<"_">> \o code[4]
                \o <<"_">> \o call.stream
       /\ LET f == NameFields IN Len(f) = 9 /\ Len(f[4]) = 2
       /\ ~call.pathfromroot => ret.v.v = basename(ret.v.v)

\* C6 witness: the code (1, 103, 0, 0) in September 2017, stream FC33hr.
C6_Witness ==
    /\ call.op = "get_mera_gribname"
    /\ call.varname = Code(1, 103, 0, 0)
    /\ call.basetime = datetime(2017, 9, 1, 0)
    /\ call.stream = FC33hr
    /\ ~call.pathfromroot
    /\ ret.ok
    /\ ret.v.v = <<"MERA", "_", "PRODYEAR", "_", "2", "0", "1", "7", "_", "0", "9", "_",
                   "1", "_", "1", "0", "3", "_", "0", "_", "0", "_", "FC33hr">>

IsIntTuple(x) == x.t = "tuple" /\ \A i \in 1..Len(x.v) : x.v[i].t = "int"

\* C7: round trip: the name get_mera_gribname builds from a 4-tuple of
\* integers, a year, a month and a stream parses back, with
\* get_grib1id_from_gribname, to a code equal to that tuple and, with
\* get_date_from_gribname, to the same year and month.
C7_RoundTrip ==
    [][ (call.op = "get_mera_gribname" /\ IsIntTuple(call.varname) /\ ret.ok)
        => /\ call'.op = "get_grib1id_from_gribname"
                => ret'.ok /\ PyEq(ret'.v, call.varname)
           /\ call'.op = "get_date_from_gribname"
                => /\ ret'.ok
                   /\ ret'.v.year = call.basetime.year
                   /\ ret'.v.month = call.basetime.month ]_vars

\* C8: a name whose part before "_at_" is not a key of the table raises the
\* unknown-variable error, whatever its suffix.
\* Every name of the claim: an unknown base, bare or with a suffix.
C8_Cases ==
    UnknownNames \cup { b \o <<"_", "at", "_">> \o x : b \in UnknownNames, x \in Suffixes }

C8_UnknownNameRaises ==
    (call.op = "get_grib1id_from_cfname" /\ call.cfname \in C8_Cases)
    => ~ret.ok /\ ret.v = KeyError

\* C8 witness: sea_surface_temperature_at_2_metres raises the unknown-variable error.
C8_Witness ==
    /\ call.op = "get_grib1id_from_cfname"
    /\ call.cfname = N(<<"sea", "surface", "temperature", "at">>) \o <<"_", "2", "_", "metres">>
    /\ ~ret.ok
    /\ ret.v = KeyError

\* C9: a table name suffixed by <level>_<unit> with a unit outside
\* {hPa, metres, kelvin, level} raises the unsupported-unit error.
\* Every name of the claim: a table name with a level and an unknown unit.
C9_Cases ==
    { n \o <<"_", "at", "_">> \o l \o <<"_">> \o u :
      n \in TableNames, l \in LevelWordInputs, u \in OtherUnits \ { <<"level">> } }

C9_UnknownUnitRaises ==
    (call.op = "get_grib1id_from_cfname" /\ call.cfname \in C9_Cases)
    => ~ret.ok /\ ret.v = UnitError

\* C9 witness: geopotential_height_at_2_feet raises the unsupported-unit error.
C9_Witness ==
    /\ call.op = "get_grib1id_from_cfname"
    /\ call.cfname = N(<<"geopotential", "height", "at">>) \o <<"_", "2", "_", "feet">>
    /\ ~ret.ok
    /\ ret.v = UnitError

\* The number of underscores after the last "/" of a path.
Underscores(p) ==
    Cardinality({ i \in 1..Len(p) : p[i] = "_" /\ \A j \in i..Len(p) : p[j] # "/" })

\* C10: get_grib1id_from_gribname and get_date_from_gribname raise the
\* malformed-name error for every name whose basename has fewer or more than
\* nine underscore-delimited fields.
C10_MalformedNameRaises ==
    ( /\ call.op \in {"get_grib1id_from_gribname", "get_date_from_gribname"}
      /\ Underscores(call.gribname) # 8 )
    => ~ret.ok /\ ret.v = UnpackError

\* C10 witness: a name of ten fields under a directory makes
\* get_grib1id_from_gribname raise.
C10_Witness ==
    /\ call.op = "get_grib1id_from_gribname"
    /\ Underscores(call.gribname) = 9
    /\ startswith(call.gribname, <<"mera", "/">>)
    /\ ~ret.ok
    /\ ret.v = UnpackError

\* A call of get_mera_gribname_valtime for a cumulative variable at 23:00 on
\* December 31.
CumulativeAtYearEnd ==
    /\ call.op = "get_mera_gribname_valtime"
    /\ call.valtime.month = 12 /\ call.valtime.day = 31 /\ call.valtime.hour = 23
    /\ Resolved(call.varname)
    /\ PyEq(TriOf(call.varname), IntV(4))

\* C18 as stated: for a cumulative variable at validity time December 31
\* 23:00, get_mera_gribname_valtime returns a file whose month field is 01.
C18_YearEndResolvesToJanuary ==
    CumulativeAtYearEnd => (ret.ok /\ NameFields[4] = <<"0", "1">>)

\* C18 amended: for a cumulative variable at validity time December 31 23:00,
\* get_mera_gribname_valtime returns the FC3hr file of December of the same
\* year, the month of the base time December 31 20:00.
C18_YearEndResolvesToDecember ==
    CumulativeAtYearEnd
    => /\ ret.ok
       /\ NameFields[3] = IntStr(call.valtime.year)
       /\ NameFields[4] = <<"1", "2">>
       /\ NameFields[9] = FC3hr

\* C18 witness: surface_snow_amount at 2016-12-31 23:00 gives the file of 2016-12.
C18_Witness ==
    /\ CumulativeAtYearEnd
    /\ call.varname = StrV(N(<<"surface", "snow", "amount">>))
    /\ call.valtime = datetime(2016, 12, 31, 23)
    /\ ~call.pathfromroot
    /\ ret = Ok(StrV(N(<<"MERA", "PRODYEAR">>) \o US \o IntStr(2016) \o US \o IntStr(12)
                     \o US \o IntStr(65) \o US \o IntStr(105) \o US \o IntStr(0)
                     \o US \o IntStr(4) \o US \o FC3hr))

\* The file name of the documentation of get_mera_gribname_valtime for the
\* year y and the month mm.
DocumentedName(y, mm) ==
    N(<<"MERA", "PRODYEAR">>) \o US \o IntStr(y) \o US \o mm \o US \o IntStr(1)
    \o US \o IntStr(61) \o US \o IntStr(0) \o US \o IntStr(4) \o US \o FC3hr

\* C19: get_mera_gribname_valtime("precipitation_amount", T) returns
\* "MERA_PRODYEAR_2017_01_1_61_0_4_FC3hr" for T = 2017-01-01 03:00 and
\* "MERA_PRODYEAR_2016_12_1_61_0_4_FC3hr" for T = 2017-01-01 00:00.
C19_DocumentedExamples ==
    ( /\ call.op = "get_mera_gribname_valtime"
      /\ call.varname = StrV(N(<<"precipitation", "amount">>))
      /\ ~call.pathfromroot
      /\ call.valtime \in {datetime(2017, 1, 1, 3), datetime(2017, 1, 1, 0)} )
    => /\ ret.ok
       /\ ret.v.t = "str"
       /\ ret.v.v = IF call.valtime.hour = 3
                    THEN DocumentedName(2017, <<"0", "1">>)
                    ELSE DocumentedName(2016, <<"1", "2">>)

\* C20: expand_pathfromroot applied to the name get_mera_gribname returns
\* without pathfromroot gives what get_mera_gribname returns with
\* pathfromroot: "mera/<IOP>/<ITL>/<LEV>/<TRI>/" followed by the file name,
\* the four directories being the code fields of the file name.
C20_ExpandedNameIsPathFromRoot ==
    (call.op = "expand_pathfromroot" /\ ~call.pathfromroot)
    => LET f == split(call.gribname, US)
           withpath == get_mera_gribname(call.varname, call.basetime, call.stream, TRUE)
       IN  /\ ret.ok
           /\ withpath.ok
           /\ ret.v.t = "str" /\ withpath.v.t = "str"
           /\ ret.v.v = withpath.v.v
           /\ ret.v.v = <<"mera">> \o SLASH \o f[5] \o SLASH \o f[6] \o SLASH \o f[7]
                        \o SLASH \o f[8] \o SLASH \o call.gribname

\* C20 witness: the name of air_pressure_at_sea_level for 2017-10 expands to
\* mera/1/103/0/0/MERA_PRODYEAR_2017_10_1_103_0_0_ANALYSIS.
C20_Witness ==
    /\ call.op = "expand_pathfromroot"
    /\ ~call.pathfromroot
    /\ call.varname = StrV(N(<<"air", "pressure", "at", "sea", "level">>))
    /\ call.basetime = datetime(2017, 10, 1, 0)
    /\ call.stream = ANALYSIS
    /\ ret.ok
    /\ ret.v.v = <<"mera">> \o SLASH \o IntStr(1) \o SLASH \o IntStr(103) \o SLASH
                 \o IntStr(0) \o SLASH \o IntStr(0) \o SLASH
                 \o N(<<"MERA", "PRODYEAR">>) \o US \o IntStr(2017) \o US \o IntStr(10)
                 \o US \o IntStr(1) \o US \o IntStr(103) \o US \o IntStr(0)
                 \o US \o IntStr(0) \o US \o ANALYSIS

\* The base names of the names a call of subset_present_gribnames asked for.
RequestedBasenames == { basename(g) : g \in Range(call.gribnames) }

\* The names of the inventory of the call: the files of the tree or the lines
\* of the manifest, without the white space around them.
InventoryNames == Range(entries_of(call.fs))

\* C11: with exclude_bz2, the names subset_present_gribnames returns are base
\* names of the names asked for and lines of the manifest, none ends in ".bz2"
\* or is a "#!" metadata line, and filtering the result again by the same
\* manifest returns the same set.
C11_FilterIsIdempotentSubset ==
    (call.op = "subset_present_gribnames" /\ call.exclude_bz2 /\ ret.ok)
    => /\ Range(ret.v) \subseteq RequestedBasenames
       /\ Range(ret.v) \subseteq InventoryNames
       /\ \A n \in Range(ret.v) : ~endswith(n, BZ2) /\ ~startswith(n, <<"#!">>)
       /\ call.nth = 2 => Range(ret.v) = Range(call.gribnames)

\* C11 witness: a second filtering returned the file that was asked for under
\* its directory, out of a manifest that also lists its compressed copy and a
\* metadata line.
C11_Witness ==
    /\ call.op = "subset_present_gribnames" /\ call.exclude_bz2 /\ ret.ok
    /\ call.nth = 2
    /\ call.fs = [kind |-> "manifest",
                  entries |-> << FileOf(11, 105, 2, 0) \o BZ2 \o <<"\n">>,
                                 FileOf(11, 105, 2, 0) \o <<"\n">> >>]
    /\ ret.v = << FileOf(11, 105, 2, 0) >>

\* C12: without exclude_bz2, subset_present_gribnames returns exactly the
\* entries of the manifest that start with "MERA" and are equal to the base
\* name of a name asked for or to that base name with ".bz2" appended.
C12_FilterProbesCompressedNames ==
    (call.op = "subset_present_gribnames" /\ ~call.exclude_bz2 /\ ret.ok)
    => Range(ret.v) =
         { l \in InventoryNames :
             /\ startswith(l, <<"MERA">>)
             /\ \E b \in RequestedBasenames : l = b \/ l = b \o BZ2 }

\* C12 witness: the file asked for under its directory is found compressed,
\* and the index file whose name it is the beginning of is not returned.
C12_Witness ==
    /\ call.op = "subset_present_gribnames" /\ ~call.exclude_bz2 /\ ret.ok
    /\ call.nth = 1
    /\ Len(call.gribnames) = 1
    /\ basename(call.gribnames[1]) = FileOf(11, 105, 2, 0)
    /\ call.gribnames[1] # FileOf(11, 105, 2, 0)
    /\ call.fs = [kind |-> "dir",
                  entries |-> << FileOf(11, 105, 2, 0) \o US \o <<"idx">>,
                                 FileOf(11, 105, 2, 0) \o BZ2 >>]
    /\ ret.v = << FileOf(11, 105, 2, 0) \o BZ2 >>

\* The inventory of the call holds a MERA file whose code, parsed from its
\* name, is the code cfname resolves to.
HasFileOfItsCode(cfname) ==
    \E l \in InventoryNames :
        /\ startswith(l, <<"MERA">>)
        /\ get_grib1id_from_gribname(l).ok
        /\ get_grib1id_from_cfname(cfname).ok
        /\ \A i \in 1..4 : get_grib1id_from_gribname(l).v.v[i].v
                           = str(get_grib1id_from_cfname(cfname).v.v[i])

RECURSIVE WithFileOfTheirCode(_)
WithFileOfTheirCode(cfnames) ==
    IF Len(cfnames) = 0 THEN <<>>
    ELSE (IF HasFileOfItsCode(cfnames[1]) THEN <<cfnames[1]>> ELSE <<>>)
         \o WithFileOfTheirCode(Tail(cfnames))

\* C13: subset_present_variables returns, in the order given, exactly the
\* variables for which the inventory holds a MERA file whose code (IOP, ITL,
\* LEV, TRI), parsed from its name, is the code the variable resolves to.
C13_PresentVariablesHaveFilesOfTheirCode ==
    (call.op = "subset_present_variables" /\ ret.ok)
    => ret.v = WithFileOfTheirCode(call.cfnames)

\* C14: reading back the document write_variables_to_yaml wrote from a flat
\* list of names gives the same set of names as the list.
C14_YamlRoundTrip ==
    (call.op = "read_variables_from_yaml" /\ call.written)
    => (ret.ok /\ Range(ret.v) = Range(call.cfnames))

\* C14 witness: the list air_temperature_at_2_metres, air_pressure_at_sea_level,
\* air_temperature_at_2_metres is read back as its two names, in the order of
\* the document.
C14_Witness ==
    /\ call.op = "read_variables_from_yaml" /\ call.written
    /\ call.cfnames = << NameOrder[5], NameOrder[2], NameOrder[5] >>
    /\ ret.ok
    /\ ret.v = << NameOrder[2], NameOrder[5] >>

\* What the entry item of a document gives: its qualified names in the order
\* of its levels, or its bare name.
Contribution(item) ==
    IF "levels" \in item.value.keys
    THEN [i \in 1..Len(item.value.levels) |->
            item.key \o <<"_", "at", "_">> \o str(item.value.levels[i]) \o <<"_">>
                     \o item.value.level_unit]
    ELSE <<item.key>>

RECURSIVE Concatenation(_)
Concatenation(ss) ==
    IF Len(ss) = 0 THEN <<>> ELSE ss[1] \o Concatenation(Tail(ss))

LevelsWithoutUnit(item) ==
    "levels" \in item.value.keys /\ "level_unit" \notin item.value.keys

\* C15: read_variables_from_yaml gives the contributions of the entries in the
\* order of the document: v_at_l1_u, ..., v_at_ln_u for an entry v with levels
\* l1..ln and unit u, v for an entry without levels; with an entry that has
\* levels and no unit it fails its assertion.
C15_EntriesExpandInOrder ==
    (call.op = "read_variables_from_yaml" /\ ~call.written)
    => LET doc == call.yaml_file
       IN  IF \E i \in 1..Len(doc) : LevelsWithoutUnit(doc[i])
           THEN ~ret.ok /\ ret.v = AssertionError
           ELSE /\ ret.ok
                /\ ret.v = Concatenation([i \in 1..Len(doc) |-> Contribution(doc[i])])

\* C15 witness: the document of the documentation, air_pressure without
\* annotation and air_temperature at 2 and 10 metres.
C15_Witness ==
    /\ call.op = "read_variables_from_yaml" /\ ~call.written
    /\ Len(call.yaml_file) = 2
    /\ call.yaml_file[1] = [key |-> N(<<"air", "pressure">>), value |-> EmptyMapping]
    /\ call.yaml_file[2].key = N(<<"air", "temperature">>)
    /\ ret.ok
    /\ ret.v = << NameOrder[1], NameOrder[5], NameOrder[4] >>

\* C15 second case: levels without a unit after a good entry.
C15_WitnessAssertion ==
    /\ call.op = "read_variables_from_yaml" /\ ~call.written
    /\ Len(call.yaml_file) = 2
    /\ ~LevelsWithoutUnit(call.yaml_file[1])
    /\ LevelsWithoutUnit(call.yaml_file[2])
    /\ ~ret.ok
    /\ ret.v = AssertionError

\* Two outcomes are the same exception or the same value.
SameOutcome(a, b) ==
    /\ a.ok = b.ok
    /\ IF a.ok THEN PyEq(a.v, b.v) ELSE a.v = b.v

\* What the call of the state returns in an interpreter that made no call
\* before it.
FirstCallOutcome ==
    IF call.op = "get_grib1id_from_cfname"
    THEN get_grib1id_from_cfname(call.input.cfname)
    ELSE IF call.op = "get_mera_gribname"
    THEN get_mera_gribname(call.input.varname, call.input.basetime, call.input.stream,
                           call.input.pathfromroot)
    ELSE get_mera_gribname_valtime(call.input.varname, call.input.valtime,
                                   call.input.pathfromroot)

\* C16: whatever calls of the resolvers were made before it, a call of
\* get_grib1id_from_cfname, get_mera_gribname or get_mera_gribname_valtime
\* returns or raises what it does as the first call of the interpreter, and
\* the tables of the module are as the source sets them.
C16_ResultIndependentOfEarlierCalls ==
    (call.op # "none")
    => /\ SameOutcome(ret, FirstCallOutcome)
       /\ tables.cfname_to_default_grib1id = cfname_to_default_grib1id
       /\ tables.unit_to_itl = unit_to_itl

\* C16 witness: air_temperature resolves to (11, 105, 2, 0) after a call that
\* resolved it at 850 hPa and a call that failed on the unit of its level.
C16_Witness ==
    /\ call.op = "get_grib1id_from_cfname"
    /\ call.input.cfname = N(<<"air", "temperature">>)
    /\ Len(call.before) = 2
    /\ call.before[1].op = "get_mera_gribname_valtime"
    /\ call.before[1].input.varname
         = StrV(N(<<"air", "temperature", "at">>) \o US \o IntStr(850) \o US \o <<"hPa">>)
    /\ call.before[1].ok
    /\ call.before[2].op = "get_grib1id_from_cfname"
    /\ ~call.before[2].ok
    /\ ret.ok
    /\ PyEq(ret.v, Code(11, 105, 2, 0))

\* The run in progress is an extraction run.
ExtractionRun == call.op \in {"create_analysis", "create_forcings"}

\* The (variable, validity time) pair was extracted if its file is there,
\* reported if it is not.
Handled(cfname, val_t) ==
    IF isfile(call.disk, source_gribname(cfname, val_t).v)
    THEN <<cfname, val_t>> \in Range(call.extracted)
    ELSE <<cfname, source_gribname(cfname, val_t).v>> \in Range(call.printed)

\* C17: in every extraction run (create_analysis, create_forcings), a
\* (variable, validity time) pair whose resolved path does not exist is
\* reported and skipped and the run goes on with the remaining variables and
\* instants: no run stops on a missing file, and a run that returned has
\* extracted every pair whose file is there and reported every other pair.
C17_MissingFileNeverAbortsRun ==
    ExtractionRun =>
        /\ call.pc = "raised" => ret.v # FileNotFoundError
        /\ call.pc = "returned" =>
               \A k \in 1..Len(call.valtimes) :
                   \A cfname \in Range(call.cfnames) : Handled(cfname, call.valtimes[k])

\* The number of seconds of one unit of duration.
SecondsOfUnit(u) ==
    IF u = "d" THEN 86400 ELSE IF u = "h" THEN 3600 ELSE IF u = "m" THEN 60 ELSE 1

\* C21: str_to_timedelta accepts every string '<integer><unit>' with unit in
\* {d, h, m, s}, in either case, and returns the duration of that many days,
\* hours, minutes or seconds.
C21_DurationOfEveryUnit ==
    call.op = "str_to_timedelta" =>
        \A n \in DurationCounts, u \in {"d", "h", "m", "s", "D", "H", "M", "S"} :
            call.strdelta = IntStr(n) \o <<u>> =>
                ret.ok /\ ret.v = n * SecondsOfUnit(lower(u))

\* The path trg is, on the files fs, a regular file holding what the file
\* src of the files fs0 held.
HoldsCopy(fs, trg, fs0, src) ==
    /\ os_path_isfile(fs, trg)
    /\ ~os_path_isdir(fs, trg)
    /\ os_path_isfile(fs0, src)
    /\ content(fs, trg) = content(fs0, src)

\* mget(rems, trgs) was called after mput(srcs, rems) returned, the lists
\* being of the same length and not empty.
RoundTrip ==
    /\ call.op = "mget"
    /\ call.sent.ok
    /\ call.srcs = call.sent.trgs
    /\ Len(call.trgs) = Len(call.srcs)
    /\ Len(call.trgs) > 0

\* C22: after mput(srcs, rems) followed by mget(rems, trgs), with lists of
\* the same length, every local target trgs[i] exists and holds the content
\* of srcs[i], also when the directory of the targets did not exist before.
C22_TransferRoundTrip ==
    RoundTrip =>
        /\ ret.ok
        /\ \A i \in 1..Len(call.trgs) :
               HoldsCopy(hosts.loc, call.trgs[i], call.sent.before.loc, call.sent.srcs[i])

\* The files, of the hosts h, that a method of the transfer in progress
\* reads its sources from and writes its targets to.
SourceFiles(h) ==
    IF call.cls = "LocalTransfer" \/ call.op = "put" THEN h.loc ELSE h.rem

TargetFiles(h) ==
    IF call.cls = "LocalTransfer" \/ call.op = "get" THEN h.loc ELSE h.rem

\* get(src, trg) or put(src, trg) returned, and there was nothing at trg
\* before it.
CopiedToNewPath ==
    /\ call.op \in {"get", "put"}
    /\ ret.ok
    /\ ~os_path_exists(TargetFiles(call.before), call.trgs[1])

\* C30: after a successful get(src, trg) or put(src, trg) on any transfer
\* class, trg not existing beforehand, trg is a regular file whose content is
\* that of src, never a directory created at that path.
C30_TargetIsTheCopiedFile ==
    CopiedToNewPath =>
        HoldsCopy(TargetFiles(hosts), call.trgs[1], SourceFiles(call.before), call.srcs[1])

\* Two lists of states are equal, key by key and cell by cell.
SameStates(a, b) ==
    /\ Len(a) = Len(b)
    /\ \A it \in 1..Len(a) :
        /\ Range(keys(a[it])) = Range(keys(b[it]))
        /\ \A i \in 1..Len(a[it]), j \in 1..Len(b[it]) :
               a[it][i].key = b[it][j].key => a[it][i].value = b[it][j].value

\* The tensor of a list of states was separated with the names and the grid
\* of the states.
SeparatedAsConcatenated ==
    /\ call.op = "separate_states"
    /\ call.cfnames = keys(call.states[1])
    /\ call.gridshape = shape(call.states[1][1].value)

\* C23, as stated: for every list of nt states of the same nv names in the
\* same order and the same grid, separate_states(concatenate_states(states),
\* names, (nx, ny)) returns nt dictionaries equal to the states.
C23_SeparateReversesConcatenate ==
    /\ call.op = "concatenate_states" => ret.ok
    /\ SeparatedAsConcatenated => ret.ok /\ SameStates(ret.v, call.states)

\* C23, amended: the same for every list of at least one state, the states
\* having at least one variable.
C23_SeparateReversesConcatenateOfStates ==
    /\ (call.op = "concatenate_states" /\ Len(call.states) > 0 /\ Len(call.cfnames) > 0)
           => ret.ok
    /\ SeparatedAsConcatenated => ret.ok /\ SameStates(ret.v, call.states)

C23_Witness ==
    /\ SeparatedAsConcatenated
    /\ ret.ok
    /\ Len(call.states) = 2
    /\ Len(call.cfnames) = 2
    /\ call.gridshape = <<2, 2>>
    /\ call.states[1] # call.states[2]

\* The names were asked for one variable and one validity time, with the
\* default streams.
RequestedForOne ==
    /\ call.op = "get_all_mera_gribnames"
    /\ Len(call.varnames) = 1
    /\ Len(call.valtimes) = 1
    /\ call.streams = DEFAULT_STREAMS

\* The file that the extraction reads for the variable and the time of the
\* request.
ResolvedForOne ==
    get_mera_gribname_valtime(call.varnames[1], call.valtimes[1], call.pathfromroot)

\* C24: for every variable v and validity time T, the file name that
\* get_mera_gribname_valtime(v, T) resolves is among the names that
\* get_all_mera_gribnames([v], [T]) produces with its default streams.
C24_RequestCoversResolvedFile ==
    (RequestedForOne /\ ResolvedForOne.ok) =>
        ret.ok /\ ResolvedForOne.v.v \in ret.v

\* The slices of the variable cfname that the sample in progress can read:
\* one for each validity time whose file is present, in the order of the
\* validity times.
RECURSIVE PresentSlices(_, _)
PresentSlices(cfname, k) ==
    IF k > Len(call.valtimes) THEN <<>>
    ELSE (IF isfile(call.disk, source_gribname(cfname, call.valtimes[k]).v)
          THEN << <<cfname, call.valtimes[k]>> >> ELSE <<>>)
         \o PresentSlices(cfname, k + 1)

\* C25: in the sample-creation loop over variables and validity times, the
\* array appended to X for a variable v holds one time slice for each validity
\* time whose file for v is present, in the order of the validity times, and
\* no data read for another variable, whatever files are missing.
C25_SampleHoldsOwnSlices ==
    call.op = "create_mera_sample" =>
        \A k \in 1..Len(call.X) : call.X[k].slices = PresentSlices(call.cfnames[k], 1)

\* The year and the month stamped in the name of the file that was read.
StampedYear == int(split(basename(call.gribname), US)[3])

StampedMonth == int(split(basename(call.gribname), US)[4])

\* C26: for every variable and validity time T, the time that get_data
\* selects in the file resolved by get_mera_gribname_valtime (T minus 3 h at
\* step 3 h in a file whose name ends with FC3hr, T otherwise) lies in the
\* year and month stamped in the name of the file.
C26_SelectedTimeInStampedMonth ==
    (call.op = "get_data" /\ ret.ok) =>
        /\ StampedYear.ok /\ StampedYear.v = ret.v.time.year
        /\ StampedMonth.ok /\ StampedMonth.v = ret.v.time.month

\* A cumulative variable read for the first hour of a year: the time
\* selected is in December of the year before.
C26_Witness ==
    /\ call.op = "get_data"
    /\ ret.ok
    /\ endswith(call.gribname, FC3hr)
    /\ call.valtimes = datetime(2017, 1, 1, 0)
    /\ ret.v.time = datetime(2016, 12, 31, 21)

\* The times of a path were parsed, the path being formatted from an
\* inference id without "+" and a lead time of -99 h to 999 h.
ParsedInRange ==
    /\ call.op = "get_times_from_gribname"
    /\ ~contains(call.inferenceid, <<"+">>)
    /\ call.leadtime >= -99 * 3600
    /\ call.leadtime <= 999 * 3600

Distinct(s) == \A a, b \in 1..Len(s) : a # b => s[a] # s[b]

\* A run of create_mera_analysis_and_forcings that returned, no input
\* having been missing.
ExtractionCompleted ==
    /\ call.op = "create_mera_analysis_and_forcings"
    /\ call.pc = "returned"
    /\ call.toa_missing = 0

\* C28: when no input is missing, the number of files a run of
\* create_mera_analysis_and_forcings announces is the number of files it
\* wrote, create_analysis having returned, for each base time,
\* max_leadtime // step + 2 distinct paths.
C28_AnnouncedIsWritten ==
    ExtractionCompleted =>
        /\ call.announced = Cardinality(call.written)
        /\ \A k \in 1..Len(call.returned) :
            /\ Len(call.returned[k]) = call.max_leadtime \div call.step + 2
            /\ Distinct(call.returned[k])


\* write_forecast was called with a list of variables to write that is not
\* a subset of the variables of the template file.
WroteNotSubset ==
    /\ call.op = "write_forecast"
    /\ isinstance_list(call.variables_to_write)
    /\ ~(Range(call.variables_to_write.v) \subseteq Range(call.cfnames))

\* C29: write_forecast called with a list variables_to_write that is not a
\* subset of the variables of the template file fails its assertion, and
\* no file or directory was written.
C29_NotSubsetFailsAssertion ==
    WroteNotSubset =>
        /\ ~ret.ok
        /\ ret.v = AssertionError
        /\ hosts.loc = call.before

====
